---- MODULE Spec2Model ----
(***************************************************************************)
(* The provider routing layer of IndiaMacroTracker: the hybrid provider    *)
(* (availability prober, startup warm-up, priority routing, fallback to    *)
(* the mock provider) as a state machine.  One action per synchronous run  *)
(* of code between two suspension points of the JavaScript event loop.     *)
(***************************************************************************)
EXTENDS Integers, Sequences, FiniteSets, TLC

\* ------------------------------------------------------------------ bounds
MaxRequests == 2
MaxTicks == 2
MaxLiveLen == 1

\* ------------------------------------------------------- program constants
\* hybrid.ts: const CHECK_INTERVAL = 5 * 60 * 1000
CHECK_INTERVAL == 5 * 60 * 1000
\* hybrid.ts: AbortSignal.timeout(5000)
PROBE_TIMEOUT == 5000
\* api/mospi/metadata/route.ts: signal: AbortSignal.timeout(30000)
FETCH_TIMEOUT == 30000
\* mock.ts generateSeries: count: number = 24
DefaultCount == 24
\* mock.ts getSeries: YoY needs more than 12 points and drops the first 12
YoYLookback == 12

\* The clock advances in steps of half a check interval, so that a record is
\* seen just inside and exactly at the end of its validity.
TickMs == CHECK_INTERVAL \div 2
StartTime == CHECK_INTERVAL
NowMonth == DefaultCount

\* ----------------------------------------------------------------- sources
Sources == {"mospi", "rbi", "nse"}
Priority == <<"mospi", "rbi", "nse">>
LiveSource == {"MoSPI", "RBI", "NSE", "Mock"}

SourceName(s) ==
  CASE s = "mospi" -> "MoSPI"
    [] s = "rbi" -> "RBI"
    [] s = "nse" -> "NSE"
    [] OTHER -> "Mock"

PriorityIndex(s) == CHOOSE k \in 1..Len(Priority) : Priority[k] = s

\* mospi.ts INDICATOR_MOSPI_MAP (keys)
INDICATOR_MOSPI_MAP ==
  {"cpi-headline-yoy", "cpi-core-yoy", "cpi-food-yoy", "wpi-yoy",
   "gdp-growth-yoy", "iip-growth-yoy", "unemployment-rate", "lfpr"}
\* rbi.ts RBI_INDICATOR_MAP (keys) and TIER1_LIVE_INDICATORS
RBI_INDICATOR_MAP ==
  {"repo-rate", "gsec-10y", "walr", "bank-credit", "usdinr", "laf-liquidity"}
TIER1_LIVE_INDICATORS == {"repo-rate", "usdinr"}
\* nse.ts MARKET_SYMBOL_MAP (keys)
MARKET_SYMBOL_MAP == {"nifty-50", "nifty-bank", "sensex", "india-vix"}

canFetchFromMoSPI(indicatorId) == indicatorId \in INDICATOR_MOSPI_MAP
\* A capability predicate that claims ids the adapter has no entry for.
canFetchFromRBILoose(indicatorId) ==
  indicatorId \in TIER1_LIVE_INDICATORS \cup {"brent"}

canFetchFromRBI(indicatorId) == indicatorId \in TIER1_LIVE_INDICATORS
canFetchFromNSE(indicatorId) == indicatorId \in MARKET_SYMBOL_MAP

canFetchFrom(s, indicatorId) ==
  CASE s = "mospi" -> canFetchFromMoSPI(indicatorId)
    [] s = "rbi" -> canFetchFromRBI(indicatorId)
    [] s = "nse" -> canFetchFromNSE(indicatorId)
    [] OTHER -> FALSE

\* The adapter's own configuration lookup (its "not available from this
\* source" guard), which for RBI is wider than its capability predicate.
AdapterConfig(s, indicatorId) ==
  CASE s = "mospi" -> indicatorId \in INDICATOR_MOSPI_MAP
    [] s = "rbi" -> indicatorId \in RBI_INDICATOR_MAP
    [] s = "nse" -> indicatorId \in MARKET_SYMBOL_MAP
    [] OTHER -> FALSE

\* ------------------------------------------------------ the static catalog
\* mock.ts MOCK_INDICATORS: id -> number of points passed to generateSeries
MOCK_INDICATORS ==
  [id \in {"cpi-headline", "cpi-core", "wpi", "cpi-food", "iip", "pmi-mfg",
           "pmi-services", "gst-collections", "unemployment",
           "employment-rate", "gsec-10y", "gsec-2y", "bank-credit", "walr",
           "usdinr", "reer", "laf-liquidity", "m3-growth", "deposits-growth",
           "trade-balance", "fx-reserves", "nifty50", "sensex", "nifty-bank",
           "india-vix", "brent", "gold-inr"} |-> DefaultCount]
  @@ [id \in {"gdp-yoy", "lfpr", "repo-rate", "current-account",
              "fiscal-deficit", "tax-collections"} |-> 12]
  @@ [id \in {"debt-gdp"} |-> 8]

CatalogIds == DOMAIN MOCK_INDICATORS

\* The ids requests are made for: one catalog id per capability class, and one
\* id a live source claims that the catalog does not hold.
RequestIds == {"lfpr", "repo-rate", "sensex", "brent", "nifty-50"}

Ops == {"getLatest", "getSeries", "getNextRelease"}

\* SeriesOptions {from, to, transform}; 0 and "" stand for an absent field.
NoOpts == [from |-> 0, to |-> 0, transform |-> ""]
SeriesOptions ==
  {NoOpts, [from |-> NowMonth + 1, to |-> 0, transform |-> ""]}

\* --------------------------------------------------------- mock provider
\* generateSeries: one point per month, the last one in the current month.
generateSeries(count) == [k \in 1..count |-> NowMonth - count + k]

\* MockDataProvider.getSeries, as the dates of the series it returns.
MockGetSeries(indicatorId, opts) ==
  LET all == generateSeries(MOCK_INDICATORS[indicatorId])
      fromOk(d) == opts.from = 0 \/ d >= opts.from
      toOk(d) == opts.to = 0 \/ d <= opts.to
      kept(d) == fromOk(d) /\ toOk(d)
      series == SelectSeq(all, kept)
  IN IF opts.transform = "YoY" /\ Len(series) > YoYLookback
       THEN SubSeq(series, YoYLookback + 1, Len(series))
     ELSE IF opts.transform = "MoM" /\ Len(series) > 1
       THEN SubSeq(series, 2, Len(series))
     ELSE series

NoLen == 0 - 1

\* The outcome of a call of the mock provider: every operation throws
\* "Indicator not found" for an id outside MOCK_INDICATORS.
MockCall(op, indicatorId, opts) ==
  IF indicatorId \notin CatalogIds
    THEN [kind |-> "error", by |-> "Mock", len |-> NoLen]
  ELSE IF op = "getSeries"
    THEN [kind |-> "ok", by |-> "Mock",
          len |-> Len(MockGetSeries(indicatorId, opts))]
  ELSE [kind |-> "ok", by |-> "Mock", len |-> NoLen]

\* ------------------------------------------------------------ live adapters
\* What a live adapter's operation can end with: Throw, or a series length
\* (NoLen for the operations that return no series).
Throw == 0 - 2

AdapterOutcomes(s, op, indicatorId) ==
  IF op = "getNextRelease" THEN {NoLen}
  ELSE IF ~AdapterConfig(s, indicatorId) THEN {Throw}
  ELSE IF op = "getLatest" THEN {NoLen, Throw}
  ELSE (0..MaxLiveLen) \cup {Throw}

\* -------------------------------------------------------------------- state
VARIABLES
  sourceStatus,        \* source -> [available, lastCheck]
  pendingChecks,       \* source -> number of the probe whose promise it holds
  initialCheckPromise, \* 0 (null) or an index into initPromises
  lastUsedSource,      \* indicator id -> LiveSource, "" where the map has no key
  now,                 \* Date.now()
  hasAbortTimeout,     \* whether the runtime provides AbortSignal.timeout
  probes,              \* the promises of checkSourceAvailability still held
  initPromises,        \* per initial check, what its Promise.all waits for
  requests,            \* the router requests in progress
  started,             \* requests made so far
  refreshed            \* whether refreshAllSources has been called

vars ==
  <<sourceStatus, pendingChecks, initialCheckPromise, lastUsedSource, now,
    hasAbortTimeout, probes, initPromises, requests, started, refreshed>>

\* The server-side API routes (api/rbi/data and api/nse/data) are modules of
\* their own, with their own state; a behaviour follows one of them.
VARIABLES
  route,            \* which route module the behaviour follows ("" for none)
  sessionToken,     \* sessionToken / nseCookies: 0 (null) or the token
  sessionExpiresAt, \* sessionExpiresAt / nseCookiesExpiry
  refreshPromise,   \* refreshPromise / cookieRefreshPromise: 0 (null) or an acquisition
  acquisitions,     \* the session acquisitions whose upstream request is outstanding
  buckets,          \* nseRateLimiter.buckets: sequence of [key, tokens, lastRefill]
  handlers,         \* the route handler invocations in progress
  clock             \* Date.now() on the server

serverVars ==
  <<route, sessionToken, sessionExpiresAt, refreshPromise, acquisitions,
    buckets, handlers, clock>>

\* No route module is loaded.
ServerIdle ==
  /\ route = ""
  /\ sessionToken = 0
  /\ sessionExpiresAt = 0
  /\ refreshPromise = 0
  /\ acquisitions = {}
  /\ buckets = << >>
  /\ handlers = << >>
  /\ clock = 0

\* The stateless helpers (provider selection, status classification, the
\* percent-change transforms) are followed one call at a time.
VARIABLES
  input,            \* the call under way: the function and its arguments
  output            \* what the call returned; NoOutput before it returns

calcVars == <<input, output>>

NoOutput == [kind |-> "pending"]

\* No helper is being called.
CalcIdle ==
  /\ input = [fn |-> ""]
  /\ output = NoOutput

\* A rate limiter followed on its own: the maxBuckets it was built with and
\* the checkLimit calls made so far, each with its answer.
VARIABLE limiter

LimiterIdle == limiter = [maxBuckets |-> 0, calls |-> << >>]

\* The client-side adapters (rbi.ts, nse.ts, mospi.ts, mock.ts) followed on
\* their own: the adapter the behaviour follows, Date.now(), the module-level
\* caches and the last getLatest call with its result.
VARIABLE adapters

\* No adapter module is loaded.
AdaptersIdle == adapters = [provider |-> ""]

\* The state of the other modules, which the provider layer does not touch.
others == <<serverVars, calcVars, limiter, adapters>>

\* The state the API routes do not touch.
clientVars == <<vars, calcVars, limiter, adapters>>

NoProbe == 0

\* The part of the state checkSourceAvailability reads and writes.  A probe is
\* [source, n, done].
Prober == [sourceStatus |-> sourceStatus, pendingChecks |-> pendingChecks,
           probes |-> probes]

ProbeOf(st, source, n) ==
  CHOOSE pr \in st.probes : pr.source = source /\ pr.n = n

InFlight(s) == {pr \in probes : pr.source = s /\ ~pr.done}

Fresh(status) ==
  status.available # "null" /\ now - status.lastCheck < CHECK_INTERVAL

NewProbeNumber(st, source) ==
  CHOOSE n \in 1..(Cardinality(st.probes) + 1) :
    /\ \A pr \in st.probes : pr.source = source => pr.n # n
    /\ \A m \in 1..(n - 1) : \E pr \in st.probes : pr.source = source /\ pr.n = m

\* The health probe's async body up to its first suspension point.  With
\* AbortSignal.timeout the fetch is issued and the body suspends; in a runtime
\* without it the argument expression throws inside the try, so catch and
\* finally run before the caller stores the promise in pendingChecks.
StartProbe(st, source) ==
  LET n == NewProbeNumber(st, source)
      pr == [source |-> source, n |-> n, done |-> ~hasAbortTimeout]
  IN IF hasAbortTimeout
       THEN [st |-> [st EXCEPT !.probes = @ \cup {pr},
                               !.pendingChecks[source] = n],
             wait |-> n, val |-> "", started |-> TRUE]
       ELSE [st |-> [st EXCEPT !.probes = @ \cup {pr},
                               !.sourceStatus[source] =
                                  [available |-> "false", lastCheck |-> now],
                               !.pendingChecks[source] = n],
             wait |-> NoProbe, val |-> "no", started |-> TRUE]

\* A prober without the pendingChecks lookup: every check of a record that is
\* not fresh starts a probe of its own.
CheckWithoutJoin(st, source) ==
  LET status == st.sourceStatus[source] IN
  IF Fresh(status)
    THEN [st |-> st, wait |-> NoProbe,
          val |-> IF status.available = "true" THEN "yes" ELSE "no",
          started |-> FALSE]
  ELSE StartProbe(st, source)

\* checkSourceAvailability up to the promise it returns: the cached flag, the
\* promise pendingChecks holds, or the promise of a check it starts.
CheckSourceAvailability(st, source) ==
  LET status == st.sourceStatus[source] IN
  IF Fresh(status)
    THEN [st |-> st, wait |-> NoProbe,
          val |-> IF status.available = "true" THEN "yes" ELSE "no",
          started |-> FALSE]
  ELSE IF st.pendingChecks[source] # NoProbe
    THEN LET pr == ProbeOf(st, source, st.pendingChecks[source]) IN
         [st |-> st, wait |-> IF pr.done THEN NoProbe ELSE pr.n,
          val |-> IF pr.done THEN "no" ELSE "",
          started |-> FALSE]
  ELSE StartProbe(st, source)

Awaited(c, source) == IF c.wait = NoProbe THEN {} ELSE {<<source, c.wait>>}

\* ensureInitialCheck: the first caller checks the three sources in one
\* synchronous run and memoises the Promise.all; later callers reuse it.
EnsureInitialCheck(st) ==
  IF initialCheckPromise = 0
    THEN LET c1 == CheckSourceAvailability(st, "mospi")
             c2 == CheckSourceAvailability(c1.st, "rbi")
             c3 == CheckSourceAvailability(c2.st, "nse")
         IN [st |-> c3.st,
             inits |-> Append(initPromises,
                              [waits |-> Awaited(c1, "mospi") \cup Awaited(c2, "rbi")
                                           \cup Awaited(c3, "nse"),
                               rejected |-> FALSE]),
             promise |-> Len(initPromises) + 1]
    ELSE [st |-> st, inits |-> initPromises, promise |-> initialCheckPromise]

InitResolved(g) == initPromises[g].waits = {} \/ initPromises[g].rejected

\* --------------------------------------------------------------- requests
NoResult == [kind |-> "none", by |-> "", len |-> NoLen]
\* The selected provider's call has not settled.
NoOut == 0 - 3
NoAvail == [s \in Sources |-> "unasked"]

\* A request whose arguments have not been read yet carries none.
NewRequest(g) ==
  [op |-> "", id |-> "", opts |-> NoOpts, pc |-> "init", initGen |-> g,
   src |-> "", wait |-> NoProbe, val |-> "", avail |-> NoAvail,
   provider |-> "", calls |-> << >>, out |-> NoOut, result |-> NoResult]

Call(provider, req) ==
  [provider |-> provider, op |-> req.op, id |-> req.id, opts |-> req.opts]

\* selectProvider has returned `provider` and the operation `op` issues the
\* delegated call provider.op(indicatorId, opts).
CallProvider(req, provider, op, opts) ==
  LET r == [req EXCEPT !.op = op, !.opts = opts] IN
  [r EXCEPT !.pc = "call", !.provider = provider, !.src = "",
            !.wait = NoProbe, !.val = "",
            !.calls = Append(@, Call(provider, r))]

\* A selection that skips the capability predicates.
NextRanked(indicatorId, k) ==
  IF k <= Len(Priority) THEN k ELSE Len(Priority) + 1

\* The first source at or after rank k whose capability predicate holds.
NextCapable(indicatorId, k) ==
  LET ks == {j \in k..Len(Priority) : canFetchFrom(Priority[j], indicatorId)}
  IN IF ks = {} THEN Len(Priority) + 1
     ELSE CHOOSE j \in ks : \A i \in ks : j <= i

\* A selection that calls the source's adapter while its check is pending.
SelectFromSpeculative(st, req, k, op, opts) ==
  LET j == NextCapable(req.id, k) IN
  IF j > Len(Priority)
    THEN [st |-> st, req |-> CallProvider(req, "Mock", op, opts)]
    ELSE LET c == CheckSourceAvailability(st, Priority[j])
         IN [st |-> c.st,
             req |-> [req EXCEPT !.pc = "check", !.src = Priority[j],
                                 !.wait = c.wait, !.val = c.val,
                                 !.calls = Append(@, Call(SourceName(Priority[j]),
                                                          req))]]

\* selectProvider from rank k on: ask the prober about the next capable
\* source, or fall through to the mock provider.
SelectFrom(st, req, k, op, opts) ==
  LET j == NextCapable(req.id, k) IN
  IF j > Len(Priority)
    THEN [st |-> st, req |-> CallProvider(req, "Mock", op, opts)]
    ELSE LET c == CheckSourceAvailability(st, Priority[j])
         IN [st |-> c.st,
             req |-> [req EXCEPT !.pc = "check", !.src = Priority[j],
                                 !.wait = c.wait, !.val = c.val]]

\* A request whose next step is a microtask: nothing but the event loop's
\* microtask queue stands between it and that step.
Runnable(req) ==
  \/ req.pc = "init" /\ InitResolved(req.initGen)
  \/ req.pc = "check" /\ req.wait = NoProbe
  \/ req.pc = "call" /\ req.provider = "Mock"

\* Timers, network events and user events are tasks: the event loop runs one
\* only when no microtask is queued.
MicrotasksDrained == \A i \in 1..Len(requests) : ~Runnable(requests[i])

\* A caller's synchronous run may make several calls before any of them
\* resumes: nothing has resumed yet that could still run.
CallerMayRun ==
  \A i \in 1..Len(requests) : Runnable(requests[i]) => requests[i].pc = "init"

\* A settled request stays in `requests` for one step, in which its caller
\* takes the outcome.
NoneDone == \A i \in 1..Len(requests) : requests[i].pc # "done"

\* The last request of the run has returned.
Finished == started = MaxRequests /\ requests = << >>

\* ------------------------------------------------------------------- Init
Init ==
  /\ sourceStatus = [s \in Sources |->
                       [available |-> "null", lastCheck |-> 0]]
  /\ pendingChecks = [s \in Sources |-> NoProbe]
  /\ initialCheckPromise = 0
  /\ lastUsedSource = [id \in RequestIds |-> ""]
  /\ now = StartTime
  /\ hasAbortTimeout \in BOOLEAN
  /\ probes = {}
  /\ initPromises = << >>
  /\ requests = << >>
  /\ started = 0
  /\ refreshed = FALSE
  /\ ServerIdle
  /\ CalcIdle
  /\ LimiterIdle
  /\ AdaptersIdle

\* ---------------------------------------------------------------- actions
SourceOf(provider) ==
  CASE provider = "MoSPI" -> "mospi"
    [] provider = "RBI" -> "rbi"
    [] provider = "NSE" -> "nse"
    [] OTHER -> ""

OptsFor(op) == IF op = "getSeries" THEN SeriesOptions ELSE {NoOpts}

\* A selectProvider that does not wait for the initial check.
InitialCheckSkipped(req) == TRUE

\* `await ensureInitialCheck()` in selectProvider: the request goes on once
\* the memoised initial check has settled.
InitialCheckAwaited(req) == InitResolved(req.initGen)

\* A caller invokes hybridProvider.getLatest / getSeries / getNextRelease:
\* selectProvider runs synchronously into ensureInitialCheck and suspends.
\* None of this depends on which operation it is or on its arguments: the
\* model draws indicatorId where selectProvider first reads it (InitDone) and
\* the operation and its options where the delegated call is issued.
StartRequest ==
  /\ started < MaxRequests
  /\ NoneDone
  /\ CallerMayRun
  /\ LET e == EnsureInitialCheck(Prober) IN
       /\ sourceStatus' = e.st.sourceStatus
       /\ pendingChecks' = e.st.pendingChecks
       /\ probes' = e.st.probes
       /\ initPromises' = e.inits
       /\ initialCheckPromise' = e.promise
       /\ requests' = Append(requests, NewRequest(e.promise))
  /\ started' = started + 1
  /\ UNCHANGED <<lastUsedSource, now, hasAbortTimeout, others, refreshed>>

Finish(req, result) ==
  [req EXCEPT !.pc = "done", !.result = result, !.wait = NoProbe]

\* A rejected promise awaited in selectProvider rejects the router's operation:
\* the await of selectProvider stands outside the operation's try block.
Rejected(req) == Finish(req, [kind |-> "error", by |-> "prober", len |-> NoLen])

\* selectProvider resumes after the initial check and asks about the first
\* capable source.
AfterInit(st, req, op, opts) ==
  IF initPromises[req.initGen].rejected
    THEN [st |-> st, req |-> Rejected(req)]
    ELSE SelectFrom(st, req, 1, op, opts)

InitDone(i, op, indicatorId, opts) ==
  /\ NoneDone
  /\ requests[i].pc = "init"
  /\ InitialCheckAwaited(requests[i])
  /\ LET r == AfterInit(Prober, [requests[i] EXCEPT !.id = indicatorId],
                        op, opts) IN
       /\ sourceStatus' = r.st.sourceStatus
       /\ pendingChecks' = r.st.pendingChecks
       /\ probes' = r.st.probes
       /\ requests' = [requests EXCEPT ![i] = r.req]
  /\ UNCHANGED <<initialCheckPromise, lastUsedSource, now, hasAbortTimeout, others,
                 initPromises, started, refreshed>>

\* selectProvider resumes with the prober's answer for req.src: it returns
\* that source's provider, or moves on to the next capable source.
AfterCheck(st, req, op, opts) ==
  LET asked == [req EXCEPT !.avail[req.src] = req.val] IN
  IF req.val = "rejected" THEN [st |-> st, req |-> Rejected(req)]
  ELSE IF req.val = "yes"
    THEN [st |-> st, req |-> CallProvider(asked, SourceName(req.src), op, opts)]
  ELSE SelectFrom(st, asked, PriorityIndex(req.src) + 1, op, opts)

CheckDone(i, op, opts) ==
  /\ NoneDone
  /\ requests[i].pc = "check"
  /\ requests[i].wait = NoProbe
  /\ LET r == AfterCheck(Prober, requests[i], op, opts) IN
       /\ sourceStatus' = r.st.sourceStatus
       /\ pendingChecks' = r.st.pendingChecks
       /\ probes' = r.st.probes
       /\ requests' = [requests EXCEPT ![i] = r.req]
  /\ UNCHANGED <<initialCheckPromise, lastUsedSource, now, hasAbortTimeout, others,
                 initPromises, started, refreshed>>

\* A fallback that drops the caller's options.
FallbackDefaultOpts(req) ==
  Finish([req EXCEPT !.calls = Append(@, Call("Mock", [req EXCEPT !.opts = NoOpts]))],
         MockCall(req.op, req.id, NoOpts))

\* The catch / empty-series branch: the same call against mockProvider, whose
\* outcome is the request's outcome.
Fallback(req) ==
  Finish([req EXCEPT !.calls = Append(@, Call("Mock", req))],
         MockCall(req.op, req.id, req.opts))

LiveResult(req, out) == [kind |-> "ok", by |-> req.provider, len |-> out]

\* What the selected provider's settled call hands back when it did not throw.
Returned(req, out) ==
  IF req.provider = "Mock" THEN MockCall(req.op, req.id, req.opts)
  ELSE LiveResult(req, out)

\* A getLatest whose catch block rethrows whatever the provider.
GetLatestNoFallback(req, out) ==
  IF out # Throw
    THEN [req |-> Finish(req, Returned(req, out)), used |-> req.provider]
    ELSE [req |-> Finish(req, [kind |-> "error", by |-> req.provider,
                               len |-> NoLen]),
          used |-> ""]

\* hybridProvider.getLatest after the selected provider's getLatest settled
\* with `out`; `used` is what it stores in lastUsedSource ("" for nothing).
GetLatestSettled(req, out) ==
  IF out # Throw
    THEN [req |-> Finish(req, Returned(req, out)), used |-> req.provider]
  ELSE IF req.provider # "Mock"
    THEN [req |-> Fallback(req), used |-> "Mock"]
  ELSE [req |-> Finish(req, MockCall(req.op, req.id, req.opts)), used |-> ""]

\* A getSeries without the series.length === 0 test.
GetSeriesKeepEmpty(req, out) ==
  IF out # Throw
    THEN [req |-> Finish(req, Returned(req, out)), used |-> ""]
  ELSE IF req.provider # "Mock"
    THEN [req |-> Fallback(req), used |-> ""]
  ELSE [req |-> Finish(req, MockCall(req.op, req.id, req.opts)), used |-> ""]

\* hybridProvider.getSeries after the selected provider's getSeries settled.
GetSeriesSettled(req, out) ==
  IF out # Throw
    THEN IF out = 0 /\ req.provider # "Mock"
           THEN [req |-> Fallback(req), used |-> ""]
           ELSE [req |-> Finish(req, Returned(req, out)), used |-> ""]
  ELSE IF req.provider # "Mock"
    THEN [req |-> Fallback(req), used |-> ""]
  ELSE [req |-> Finish(req, MockCall(req.op, req.id, req.opts)), used |-> ""]

\* hybridProvider.getNextRelease after the selected provider's call settled.
GetNextReleaseSettled(req, out) ==
  IF out # Throw
    THEN [req |-> Finish(req, Returned(req, out)), used |-> ""]
  ELSE IF req.provider # "Mock"
    THEN [req |-> Fallback(req), used |-> ""]
  ELSE [req |-> Finish(req, MockCall(req.op, req.id, req.opts)), used |-> ""]

Settled(req, out) ==
  CASE req.op = "getLatest" -> GetLatestSettled(req, out)
    [] req.op = "getSeries" -> GetSeriesSettled(req, out)
    [] OTHER -> GetNextReleaseSettled(req, out)

\* A router that takes a thrown error of a live adapter as a verdict on the
\* source.
SettleMarkingFailure(i, out) ==
  LET s == Settled(requests[i], out)
      src == SourceOf(requests[i].provider)
  IN
    /\ requests' = [requests EXCEPT ![i] = [s.req EXCEPT !.out = out]]
    /\ lastUsedSource' = IF s.used = "" THEN lastUsedSource
                         ELSE [lastUsedSource EXCEPT ![requests[i].id] = s.used]
    /\ sourceStatus' =
         IF out = Throw /\ src # ""
           THEN [sourceStatus EXCEPT ![src] =
                   [available |-> "false", lastCheck |-> now]]
         ELSE sourceStatus
    /\ UNCHANGED <<pendingChecks, initialCheckPromise, now,
                   hasAbortTimeout, others, probes, initPromises, started, refreshed>>

Settle(i, out) ==
  LET s == Settled(requests[i], out) IN
    /\ requests' = [requests EXCEPT ![i] = [s.req EXCEPT !.out = out]]
    /\ lastUsedSource' = IF s.used = "" THEN lastUsedSource
                         ELSE [lastUsedSource EXCEPT ![requests[i].id] = s.used]
    /\ UNCHANGED <<sourceStatus, pendingChecks, initialCheckPromise, now,
                   hasAbortTimeout, others, probes, initPromises, started, refreshed>>

\* What the mock provider's call settles with, in the adapters' terms.
MockOutcome(req) ==
  LET m == MockCall(req.op, req.id, req.opts)
  IN IF m.kind = "error" THEN Throw ELSE m.len

\* The selected live adapter's call settles.
AdapterReturn(i, out) ==
  /\ NoneDone
  /\ requests[i].pc = "call"
  /\ requests[i].provider # "Mock"
  /\ out \in AdapterOutcomes(SourceOf(requests[i].provider), requests[i].op,
                             requests[i].id)
  /\ Settle(i, out)

\* The mock provider, selected as the provider, settles.
MockReturn(i) ==
  /\ NoneDone
  /\ requests[i].pc = "call"
  /\ requests[i].provider = "Mock"
  /\ Settle(i, MockOutcome(requests[i]))

\* The caller takes the outcome of a settled request.
Return(i) ==
  /\ requests[i].pc = "done"
  /\ requests' = SubSeq(requests, 1, i - 1) \o SubSeq(requests, i + 1, Len(requests))
  /\ UNCHANGED <<sourceStatus, pendingChecks, initialCheckPromise,
                 lastUsedSource, now, hasAbortTimeout, others, probes, initPromises,
                 started, refreshed>>

\* getDataSource
getDataSource(indicatorId) ==
  IF lastUsedSource[indicatorId] = "" THEN "Mock" ELSE lastUsedSource[indicatorId]

ProbeOutcomes == {"success", "nonSuccess", "throw"}

\* A probe whose catch block lets the error through to its promise.
ProbeValueRethrow(outcome) ==
  IF outcome = "success" THEN "yes"
  ELSE IF outcome = "throw" THEN "rejected"
  ELSE "no"

\* What the probe's promise settles with: result.success === true, or false
\* from the catch block.
ProbeValue(outcome) == IF outcome = "success" THEN "yes" ELSE "no"

\* The rest of the health probe's body: the response arrives with
\* success === true, arrives without it, or fetch / json() rejects (network
\* error, timeout); then the finally block.
FinishProbe(st, pr, outcome) ==
  [st EXCEPT
     !.sourceStatus[pr.source] =
        [available |-> IF ProbeValue(outcome) = "yes" THEN "true" ELSE "false",
         lastCheck |-> now],
     !.pendingChecks[pr.source] = NoProbe,
     !.probes = @ \ {pr}]

\* Whoever awaits the probe's promise receives its value.
Deliver(req, pr, value) ==
  IF req.pc = "check" /\ req.src = pr.source /\ req.wait = pr.n
    THEN [req EXCEPT !.wait = NoProbe, !.val = value]
    ELSE req

DeliverInit(ip, pr, value) ==
  IF <<pr.source, pr.n>> \in ip.waits
    THEN [waits |-> ip.waits \ {<<pr.source, pr.n>>},
          rejected |-> ip.rejected \/ value = "rejected"]
    ELSE ip

ProbeComplete(pr, outcome) ==
  /\ NoneDone
  /\ ~Finished
  /\ ~pr.done
  /\ MicrotasksDrained
  /\ LET st == FinishProbe(Prober, pr, outcome) IN
       /\ sourceStatus' = st.sourceStatus
       /\ pendingChecks' = st.pendingChecks
       /\ probes' = st.probes
  /\ requests' = [i \in 1..Len(requests) |->
                    Deliver(requests[i], pr, ProbeValue(outcome))]
  /\ initPromises' = [g \in 1..Len(initPromises) |->
                        DeliverInit(initPromises[g], pr, ProbeValue(outcome))]
  /\ UNCHANGED <<initialCheckPromise, lastUsedSource, now, hasAbortTimeout, others,
                 started, refreshed>>

\* refreshAllSources
RefreshedStatus ==
  [s \in Sources |-> [available |-> "null", lastCheck |-> 0]]

RefreshAllSources ==
  /\ ~Finished
  /\ NoneDone
  /\ CallerMayRun
  /\ sourceStatus' = RefreshedStatus
  /\ initialCheckPromise' = 0
  /\ refreshed' = TRUE
  /\ UNCHANGED <<pendingChecks, lastUsedSource, now, hasAbortTimeout, others, probes,
                 initPromises, requests, started>>

LiveCalls ==
  {i \in 1..Len(requests) : requests[i].pc = "call" /\ requests[i].provider # "Mock"}

\* Time passes.  A health probe is aborted after PROBE_TIMEOUT and the API
\* routes abort their upstream fetches after at most FETCH_TIMEOUT; both are
\* less than one step of the clock, so neither is in flight across a step.
Tick ==
  /\ now < StartTime + MaxTicks * TickMs
  /\ ~Finished
  /\ NoneDone
  /\ MicrotasksDrained
  /\ TickMs <= PROBE_TIMEOUT \/ \A s \in Sources : InFlight(s) = {}
  /\ TickMs <= FETCH_TIMEOUT \/ LiveCalls = {}
  /\ now' = now + TickMs
  /\ UNCHANGED <<sourceStatus, pendingChecks, initialCheckPromise,
                 lastUsedSource, hasAbortTimeout, others, probes, initPromises,
                 requests, started, refreshed>>

Next ==
  \/ StartRequest
  \/ \E i \in 1..Len(requests), op \in Ops, id \in RequestIds :
       \E opts \in OptsFor(op) : InitDone(i, op, id, opts)
  \/ \E i \in 1..Len(requests), op \in Ops :
       \E opts \in OptsFor(op) : CheckDone(i, op, opts)
  \/ \E i \in 1..Len(requests) :
       \E out \in (0..MaxLiveLen) \cup {NoLen, Throw} : AdapterReturn(i, out)
  \/ \E i \in 1..Len(requests) : MockReturn(i)
  \/ \E i \in 1..Len(requests) : Return(i)
  \/ \E pr \in probes, outcome \in ProbeOutcomes : ProbeComplete(pr, outcome)
  \/ RefreshAllSources
  \/ Tick

Spec == Init /\ [][Next]_vars

\* ---------------------------------------------------------- API routes
\* The server-side route modules: api/rbi/data (session token, CIMS gateway
\* calls) and api/nse/data (rate limiter, cookies, authenticated fetch).

MaxHandlers == 2
MaxShortSteps == 1
MaxLongSteps == 1

\* rbi route: const SESSION_LIFETIME_MS = 12 * 60 * 1000
SESSION_LIFETIME_MS == 12 * 60 * 1000
\* nse route: const COOKIE_LIFETIME_MS = 4 * 60 * 1000
COOKIE_LIFETIME_MS == 4 * 60 * 1000
\* rate-limiter.ts: new TokenBucketRateLimiter(10, 10 / 60), maxBuckets = 1000
NseMaxTokens == 10
NseMaxBuckets == 1000
\* Tokens are counted in units of the refill of one millisecond: at 10 / 60
\* tokens per second one token is 6000 units.
TokenUnit == 6000

Routes == {"rbi", "nse"}
Lifetime == IF route = "rbi" THEN SESSION_LIFETIME_MS ELSE COOKIE_LIFETIME_MS

\* The clock moves by the refill time of one token or by a session lifetime.
ShortStep == TokenUnit
LongStep == Lifetime
ServerStart == LongStep

\* The rate-limit key requests are made for: nse_${symbol}_${exchange}.
RateLimitKeys == {"nse_NIFTY 50_NSE"}

HandlerKinds == IF route = "rbi" THEN {"health", "data"} ELSE {"market"}

\* ---- TokenBucketRateLimiter
BucketIndex(bs, key) ==
  IF \E k \in 1..Len(bs) : bs[k].key = key
    THEN CHOOSE k \in 1..Len(bs) : bs[k].key = key
    ELSE 0

Min(a, b) == IF a <= b THEN a ELSE b

\* Math.ceil(tokensNeeded / refillRate), in seconds
RetryAfter(tokens) == (TokenUnit - tokens + 999) \div 1000

\* A bucket refilled without the cap at maxTokens.
TokenBucketCheckUncapped(maxBuckets, bs, key, t) ==
  LET k == BucketIndex(bs, key) IN
  IF k = 0
    THEN LET added == Append(bs, [key |-> key,
                                  tokens |-> (NseMaxTokens - 1) * TokenUnit,
                                  lastRefill |-> t])
         IN [buckets |-> IF Len(added) > maxBuckets THEN Tail(added) ELSE added,
             allowed |-> TRUE, retryAfter |-> 0]
    ELSE LET refilled == bs[k].tokens + (t - bs[k].lastRefill)
         IN IF refilled >= TokenUnit
              THEN [buckets |-> [bs EXCEPT ![k].tokens = refilled - TokenUnit,
                                           ![k].lastRefill = t],
                    allowed |-> TRUE, retryAfter |-> 0]
              ELSE [buckets |-> [bs EXCEPT ![k].tokens = refilled,
                                           ![k].lastRefill = t],
                    allowed |-> FALSE, retryAfter |-> RetryAfter(refilled)]

\* checkLimit(key) at time t of a limiter built with maxBuckets: the buckets
\* afterwards and the answer.
TokenBucketCheck(maxBuckets, bs, key, t) ==
  LET k == BucketIndex(bs, key) IN
  IF k = 0
    THEN LET added == Append(bs, [key |-> key,
                                  tokens |-> (NseMaxTokens - 1) * TokenUnit,
                                  lastRefill |-> t])
         IN [buckets |-> IF Len(added) > maxBuckets THEN Tail(added) ELSE added,
             allowed |-> TRUE, retryAfter |-> 0]
    ELSE LET refilled == Min(NseMaxTokens * TokenUnit,
                             bs[k].tokens + (t - bs[k].lastRefill))
         IN IF refilled >= TokenUnit
              THEN [buckets |-> [bs EXCEPT ![k].tokens = refilled - TokenUnit,
                                           ![k].lastRefill = t],
                    allowed |-> TRUE, retryAfter |-> 0]
              ELSE [buckets |-> [bs EXCEPT ![k].tokens = refilled,
                                           ![k].lastRefill = t],
                    allowed |-> FALSE, retryAfter |-> RetryAfter(refilled)]

\* nseRateLimiter.checkLimit(key)
checkLimit(bs, key, t) == TokenBucketCheck(NseMaxBuckets, bs, key, t)

\* ---- session management
\* What an awaited session promise can hand over: a token (1), null (0, NSE
\* only) or a rejection.
SessionRejected == 0 - 1

Session == [sessionToken |-> sessionToken, sessionExpiresAt |-> sessionExpiresAt,
            refreshPromise |-> refreshPromise, acquisitions |-> acquisitions]

NewAcquisition(st) ==
  CHOOSE n \in 1..(Cardinality(st.acquisitions) + 1) :
    \A a \in st.acquisitions : a.n # n

\* A session getter without the refreshPromise test.
GetSessionWithoutJoin(st) ==
  IF st.sessionToken # 0 /\ clock < st.sessionExpiresAt
    THEN [st |-> st, wait |-> 0, val |-> st.sessionToken]
  ELSE LET n == NewAcquisition(st) IN
       [st |-> [st EXCEPT !.refreshPromise = n,
                          !.acquisitions = @ \cup {[n |-> n, at |-> clock]}],
        wait |-> n, val |-> 0]

\* getSessionToken / getNSECookies up to the promise returned: the cached
\* session, the acquisition in flight, or a new acquisition.
GetSession(st) ==
  IF st.sessionToken # 0 /\ clock < st.sessionExpiresAt
    THEN [st |-> st, wait |-> 0, val |-> st.sessionToken]
  ELSE IF st.refreshPromise # 0
    THEN [st |-> st, wait |-> st.refreshPromise, val |-> 0]
  ELSE LET n == NewAcquisition(st) IN
       [st |-> [st EXCEPT !.refreshPromise = n,
                          !.acquisitions = @ \cup {[n |-> n, at |-> clock]}],
        wait |-> n, val |-> 0]

\* invalidateSession / nseCookies = null; nseCookiesExpiry = 0
InvalidateSession(st) ==
  [st EXCEPT !.sessionToken = 0, !.sessionExpiresAt = 0]

\* How the acquisition's upstream request can end: rbi - a response with the
\* authorization header, or anything else; nse - cookies set, a response
\* without cookies, or a failed fetch.
AcquisitionOutcomes ==
  IF route = "rbi" THEN {"token", "fail"} ELSE {"token", "none", "fail"}

\* The token (cookie string) a successful acquisition receives: a value
\* different from the cached one and from every one a handler still holds,
\* the tokens being told apart by the least such number.
NewToken(st) ==
  LET held == {st.sessionToken}
                \cup {handlers[i].val : i \in 1..Len(handlers)}
  IN CHOOSE t \in 1..(Len(handlers) + 2) :
       t \notin held /\ \A u \in 1..(t - 1) : u \in held

\* The rest of the acquisition's body and its finally block.
FinishAcquisition(st, a, outcome) ==
  LET done == [st EXCEPT !.refreshPromise = 0, !.acquisitions = @ \ {a}] IN
  IF outcome = "token"
    THEN [done EXCEPT !.sessionToken = NewToken(st),
                      !.sessionExpiresAt =
                         IF route = "rbi" THEN clock + SESSION_LIFETIME_MS
                         ELSE a.at + COOKIE_LIFETIME_MS]
  ELSE IF outcome = "none" /\ st.sessionToken # 0
    THEN [done EXCEPT !.sessionExpiresAt = a.at + COOKIE_LIFETIME_MS]
  ELSE done

\* What the acquisition's promise settles with.
AcquisitionValue(st, outcome) ==
  IF outcome = "token" THEN NewToken(st)
  ELSE IF route = "rbi" THEN SessionRejected
  ELSE IF outcome = "none" THEN st.sessionToken
  ELSE 0

\* ---- route handlers
\* A handler invocation: its kind, its rate-limit key (nse), where it stands,
\* the acquisition it waits for, the value its last session promise settled
\* with (the token or cookies of the request it then issues), whether the
\* limiter admitted it, the responses its data requests received and the
\* number of data requests it has issued.
NewHandler(kind, key) ==
  [kind |-> kind, key |-> key, pc |-> "session", wait |-> 0, val |-> 0,
   admitted |-> FALSE, resp |-> << >>, sent |-> 0, result |-> ""]

\* How a data request can end: a good response, a 401/403, a CIMS error
\* response with code 4311 or 8706 (rbi), or any other failure.
ResponseOutcomes ==
  IF route = "rbi" THEN {"ok", "auth", "expired", "fail"}
  ELSE {"ok", "auth", "fail"}

HandlerRunnable(h) == h.pc \in {"session", "resession"} /\ h.wait = 0
ServerDrained == \A i \in 1..Len(handlers) : ~HandlerRunnable(handlers[i])
NoneResponded == \A i \in 1..Len(handlers) : handlers[i].pc # "responded"

Respond(h, result) == [h EXCEPT !.pc = "responded", !.result = result, !.wait = 0]

AwaitSession(h, pc, g) == [h EXCEPT !.pc = pc, !.wait = g.wait, !.val = g.val]

ServerInit ==
  /\ route \in Routes
  /\ sessionToken = 0
  /\ sessionExpiresAt = 0
  /\ refreshPromise = 0
  /\ acquisitions = {}
  /\ buckets = << >>
  /\ handlers = << >>
  /\ clock = ServerStart
  /\ sourceStatus = [s \in Sources |-> [available |-> "null", lastCheck |-> 0]]
  /\ pendingChecks = [s \in Sources |-> NoProbe]
  /\ initialCheckPromise = 0
  /\ lastUsedSource = [id \in RequestIds |-> ""]
  /\ now = StartTime
  /\ hasAbortTimeout = TRUE
  /\ probes = {}
  /\ initPromises = << >>
  /\ requests = << >>
  /\ started = 0
  /\ refreshed = FALSE
  /\ CalcIdle
  /\ LimiterIdle
  /\ AdaptersIdle

SetSession(st) ==
  /\ sessionToken' = st.sessionToken
  /\ sessionExpiresAt' = st.sessionExpiresAt
  /\ refreshPromise' = st.refreshPromise
  /\ acquisitions' = st.acquisitions

\* GET /api/rbi/data (type health or current) and POST /api/rbi/data: no
\* admission check; the handler runs into getSessionToken.
RbiRequest(kind) ==
  /\ route = "rbi"
  /\ Len(handlers) < MaxHandlers
  /\ NoneResponded
  /\ LET g == GetSession(Session) IN
       /\ SetSession(g.st)
       /\ handlers' = Append(handlers,
                             AwaitSession(NewHandler(kind, ""), "session", g))
  /\ UNCHANGED <<route, buckets, clock, clientVars>>

\* GET /api/nse/data: the rate limiting check, then nseFetch runs into
\* getNSECookies; a request that is not allowed is answered with 429.
NseRequest(key) ==
  /\ route = "nse"
  /\ Len(handlers) < MaxHandlers
  /\ NoneResponded
  /\ LET c == checkLimit(buckets, key, clock)
         g == GetSession(Session)
         h == NewHandler("market", key)
     IN /\ buckets' = c.buckets
        /\ IF c.allowed
             THEN /\ SetSession(g.st)
                  /\ handlers' = Append(handlers,
                       AwaitSession([h EXCEPT !.admitted = TRUE], "session", g))
             ELSE /\ SetSession(Session)
                  /\ handlers' = Append(handlers, Respond(h, "rateLimited"))
  /\ UNCHANGED <<route, clock, clientVars>>

\* The first session promise has settled: the health check answers, the
\* others issue their data request.
SessionSettled(h) ==
  IF h.val = SessionRejected THEN Respond(h, "error")
  ELSE IF h.kind = "health" THEN Respond(h, "ok")
  ELSE [h EXCEPT !.pc = "fetch", !.sent = @ + 1]

SessionReady(i) ==
  /\ NoneResponded
  /\ handlers[i].pc = "session"
  /\ handlers[i].wait = 0
  /\ handlers' = [handlers EXCEPT ![i] = SessionSettled(handlers[i])]
  /\ UNCHANGED <<route, sessionToken, sessionExpiresAt, refreshPromise,
                 acquisitions, buckets, clock, clientVars>>

\* callCimsService / parseResponse after the first response.
CimsResponse(st, h, outcome) ==
  LET r == [h EXCEPT !.resp = Append(@, outcome)] IN
  IF outcome = "auth"
    THEN LET g == GetSession(InvalidateSession(st))
         IN [st |-> g.st, h |-> AwaitSession(r, "resession", g)]
  ELSE IF outcome = "expired"
    THEN [st |-> InvalidateSession(st), h |-> Respond(r, "error")]
  ELSE IF outcome = "fail" THEN [st |-> st, h |-> Respond(r, "error")]
  ELSE [st |-> st, h |-> Respond(r, "ok")]

\* nseFetch and the route handler after the first response.
NseResponse(st, h, outcome) ==
  LET r == [h EXCEPT !.resp = Append(@, outcome)] IN
  IF outcome = "auth" /\ h.val # 0
    THEN LET g == GetSession(InvalidateSession(st))
         IN [st |-> g.st, h |-> AwaitSession(r, "resession", g)]
  ELSE IF outcome = "ok" THEN [st |-> st, h |-> Respond(r, "ok")]
  ELSE [st |-> st, h |-> Respond(r, "error")]

DataResponse(i, outcome) ==
  /\ NoneResponded
  /\ ServerDrained
  /\ handlers[i].pc = "fetch"
  /\ outcome \in ResponseOutcomes
  /\ LET r == IF route = "rbi" THEN CimsResponse(Session, handlers[i], outcome)
              ELSE NseResponse(Session, handlers[i], outcome)
     IN /\ SetSession(r.st)
        /\ handlers' = [handlers EXCEPT ![i] = r.h]
  /\ UNCHANGED <<route, buckets, clock, clientVars>>

\* The second session promise has settled: the retry is issued, unless no
\* session was obtained.
ResessionSettled(h) ==
  IF h.val = SessionRejected THEN Respond(h, "error")
  ELSE IF h.val = 0 THEN Respond(h, "error")
  ELSE [h EXCEPT !.pc = "refetch", !.sent = @ + 1]

ResessionReady(i) ==
  /\ NoneResponded
  /\ handlers[i].pc = "resession"
  /\ handlers[i].wait = 0
  /\ handlers' = [handlers EXCEPT ![i] = ResessionSettled(handlers[i])]
  /\ UNCHANGED <<route, sessionToken, sessionExpiresAt, refreshPromise,
                 acquisitions, buckets, clock, clientVars>>

\* The retry's response: good, or reported as the failure of the operation.
RetrySettled(st, h, outcome) ==
  LET r == [h EXCEPT !.resp = Append(@, outcome)] IN
  IF outcome = "ok" THEN [st |-> st, h |-> Respond(r, "ok")]
  ELSE IF outcome = "expired"
    THEN [st |-> InvalidateSession(st), h |-> Respond(r, "error")]
  ELSE [st |-> st, h |-> Respond(r, "error")]

RetryResponse(i, outcome) ==
  /\ NoneResponded
  /\ ServerDrained
  /\ handlers[i].pc = "refetch"
  /\ outcome \in ResponseOutcomes
  /\ LET r == RetrySettled(Session, handlers[i], outcome)
     IN /\ SetSession(r.st)
        /\ handlers' = [handlers EXCEPT ![i] = r.h]
  /\ UNCHANGED <<route, buckets, clock, clientVars>>

\* The response is sent and the invocation is over.
SendResponse(i) ==
  /\ handlers[i].pc = "responded"
  /\ handlers' = SubSeq(handlers, 1, i - 1)
                   \o SubSeq(handlers, i + 1, Len(handlers))
  /\ UNCHANGED <<route, sessionToken, sessionExpiresAt, refreshPromise,
                 acquisitions, buckets, clock, clientVars>>

DeliverSession(h, a, value) ==
  IF h.pc \in {"session", "resession"} /\ h.wait = a.n
    THEN [h EXCEPT !.wait = 0, !.val = value]
    ELSE h

\* The acquisition's upstream request ends.
AcquisitionComplete(a, outcome) ==
  /\ NoneResponded
  /\ ServerDrained
  /\ outcome \in AcquisitionOutcomes
  /\ SetSession(FinishAcquisition(Session, a, outcome))
  /\ handlers' = [i \in 1..Len(handlers) |->
                    DeliverSession(handlers[i], a,
                                   AcquisitionValue(Session, outcome))]
  /\ UNCHANGED <<route, buckets, clock, clientVars>>

Outstanding ==
  {i \in 1..Len(handlers) : handlers[i].pc \in {"fetch", "refetch"}}

\* Time passes on the server.  Every upstream request is aborted after at
\* most FETCH_TIMEOUT, so none is outstanding across a long step.
ServerTick(step) ==
  /\ NoneResponded
  /\ ServerDrained
  /\ step = LongStep => acquisitions = {} /\ Outstanding = {}
  /\ step = ShortStep => ((clock - ServerStart) % LongStep) \div ShortStep < MaxShortSteps
  /\ step = LongStep => (clock - ServerStart) \div LongStep < MaxLongSteps
  /\ clock' = clock + step
  /\ UNCHANGED <<route, sessionToken, sessionExpiresAt, refreshPromise,
                 acquisitions, buckets, handlers, clientVars>>

ServerNext ==
  \/ \E kind \in {"health", "data"} : RbiRequest(kind)
  \/ \E key \in RateLimitKeys : NseRequest(key)
  \/ \E i \in 1..Len(handlers) : SessionReady(i)
  \/ \E i \in 1..Len(handlers), outcome \in {"ok", "auth", "expired", "fail"} :
       DataResponse(i, outcome)
  \/ \E i \in 1..Len(handlers) : ResessionReady(i)
  \/ \E i \in 1..Len(handlers), outcome \in {"ok", "auth", "expired", "fail"} :
       RetryResponse(i, outcome)
  \/ \E i \in 1..Len(handlers) : SendResponse(i)
  \/ \E a \in acquisitions, outcome \in {"token", "none", "fail"} :
       AcquisitionComplete(a, outcome)
  \/ \E step \in {ShortStep, LongStep} : ServerTick(step)

SpecServer == ServerInit /\ [][ServerNext]_<<serverVars, clientVars>>

\* ------------------------------------------------------ stateless helpers
\* Bounds of the helpers' inputs.  Percentages handed to getStatus are counted
\* in thousandths of a percentage point.
MaxChangePct == 320

\* ---- providers/index.ts
\* process.env.NEXT_PUBLIC_DATA_SOURCE: undefined, or a string (possibly "").
Environments ==
  {[defined |-> FALSE, value |-> ""]}
  \cup {[defined |-> TRUE, value |-> s] :
          s \in {"", "mock", "mospi", "rbi", "nse", "hybrid",
                 "Mock", "HYBRID", "rbi ", "live", "undefined"}}

\* env || "mock": undefined and the empty string are both falsy.
OrMock(env) == IF env.defined /\ env.value # "" THEN env.value ELSE "mock"

ProviderResult(provider, warned) ==
  [kind |-> "return", provider |-> provider, warned |-> warned]

getDataProviderStrict(env) ==
  LET dataSource == OrMock(env)
  IN CASE dataSource = "mock" -> ProviderResult("MockDataProvider", FALSE)
       [] dataSource = "mospi" -> ProviderResult("mospiProvider", FALSE)
       [] dataSource = "rbi" -> ProviderResult("rbiProvider", FALSE)
       [] dataSource = "nse" -> ProviderResult("nseProvider", FALSE)
       [] dataSource = "hybrid" -> ProviderResult("hybridProvider", FALSE)
       [] OTHER -> [kind |-> "throw", provider |-> "", warned |-> FALSE]

\* getDataProvider: a switch on the data source, strict string equality; the
\* default branch warns on the console and builds a mock provider.
getDataProvider(env) ==
  LET dataSource == OrMock(env)
  IN CASE dataSource = "mock" -> ProviderResult("MockDataProvider", FALSE)
       [] dataSource = "mospi" -> ProviderResult("mospiProvider", FALSE)
       [] dataSource = "rbi" -> ProviderResult("rbiProvider", FALSE)
       [] dataSource = "nse" -> ProviderResult("nseProvider", FALSE)
       [] dataSource = "hybrid" -> ProviderResult("hybridProvider", FALSE)
       [] OTHER -> ProviderResult("MockDataProvider", TRUE)

\* ---- getStatus
\* The thresholds 0.3 and 0.15, in thousandths.
HeatingThreshold == 300
WatchThreshold == 150

Abs(x) == IF x < 0 THEN 0 - x ELSE x

getStatusInclusive(changePct) ==
  IF changePct >= HeatingThreshold THEN [kind |-> "return", status |-> "Heating"]
  ELSE IF changePct <= 0 - HeatingThreshold THEN [kind |-> "return", status |-> "Cooling"]
  ELSE IF Abs(changePct) >= WatchThreshold THEN [kind |-> "return", status |-> "Watch"]
  ELSE [kind |-> "return", status |-> "Neutral"]

getStatus(changePct) ==
  IF changePct > HeatingThreshold THEN [kind |-> "return", status |-> "Heating"]
  ELSE IF changePct < 0 - HeatingThreshold THEN [kind |-> "return", status |-> "Cooling"]
  ELSE IF Abs(changePct) > WatchThreshold THEN [kind |-> "return", status |-> "Watch"]
  ELSE [kind |-> "return", status |-> "Neutral"]

\* ---- the percent-change transforms
\* Longest series an upstream response is taken to hold.
MaxSeriesLen == 14

\* A point of a series.  Values are counted in hundredths, as toFixed(2)
\* leaves them; num tells a number from Infinity, -Infinity and NaN.
Point(date, value) == [date |-> date, value |-> value, num |-> "finite"]

\* n / d rounded to the nearest integer, halves away from zero (toFixed).
RoundDiv(n, d) ==
  IF n >= 0 THEN (2 * n + d) \div (2 * d)
  ELSE 0 - ((2 * (0 - n) + d) \div (2 * d))

\* parseFloat((((current - prior) / Math.abs(prior)) * 100).toFixed(2)): a
\* zero prior makes the quotient Infinity, -Infinity or NaN, which toFixed
\* and parseFloat hand through.
PercentChange(date, current, prior) ==
  IF prior = 0
    THEN [date |-> date, value |-> 0,
          num |-> IF current > 0 THEN "Infinity"
                  ELSE IF current < 0 THEN "-Infinity" ELSE "NaN"]
  ELSE Point(date, RoundDiv((current - prior) * 10000, Abs(prior)))

\* mock.ts MOCK_INDICATORS: the arguments of generateSeries (base, volatility
\* and trend in hundredths) and the frequency, for the ids followed here.
MockParams ==
  [id \in {"wpi"} |->
     [base |-> 180, volatility |-> 50, trend |-> 0, frequency |-> "Monthly"]]
  @@ [id \in {"cpi-headline"} |->
     [base |-> 480, volatility |-> 30, trend |-> 0, frequency |-> "Monthly"]]
  @@ [id \in {"gdp-yoy"} |->
     [base |-> 670, volatility |-> 40, trend |-> 5, frequency |-> "Quarterly"]]
  @@ [id \in {"tax-collections"} |->
     [base |-> 1850, volatility |-> 80, trend |-> 30, frequency |-> "Monthly"]]
  @@ [id \in {"debt-gdp"} |->
     [base |-> 8200, volatility |-> 50, trend |-> 0 - 30, frequency |-> "Annual"]]

\* What Math.random() returns, in hundredths; a series is generated with the
\* same draw at every step.
Draws == {12, 48, 84}

\* generateSeries with its values: val += (Math.random() - 0.48) * volatility
\* + trend at every step, each value kept as parseFloat(val.toFixed(2)).
generateValues(base, volatility, count, trend, draw) ==
  LET step == (draw - 48) * volatility + trend * 100
      dates == generateSeries(count)
  IN [k \in 1..count |->
        Point(dates[k], RoundDiv(base * 100 + k * step, 100))]

\* indicator.series of the catalog entry
MockSeries(indicatorId, draw) ==
  LET p == MockParams[indicatorId]
  IN generateValues(p.base, p.volatility, MOCK_INDICATORS[indicatorId],
                    p.trend, draw)

\* getSeries: the opts.from / opts.to filters
FilterByDate(all, opts) ==
  LET fromOk(d) == opts.from = 0 \/ d.date >= opts.from
      toOk(d) == opts.to = 0 \/ d.date <= opts.to
      kept(d) == fromOk(d) /\ toOk(d)
  IN SelectSeq(all, kept)

Series(series) == [kind |-> "return", series |-> series]

\* MockDataProvider.getSeries with the values of the series it returns
getSeries(indicatorId, draw, opts) ==
  IF indicatorId \notin CatalogIds THEN [kind |-> "throw", series |-> << >>]
  ELSE
    LET series == FilterByDate(MockSeries(indicatorId, draw), opts)
    IN IF opts.transform = "YoY" /\ Len(series) > YoYLookback
         THEN Series([i \in 1..(Len(series) - YoYLookback) |->
                        PercentChange(series[i + YoYLookback].date,
                                      series[i + YoYLookback].value,
                                      series[i].value)])
       ELSE IF opts.transform = "MoM" /\ Len(series) > 1
         THEN Series([i \in 1..(Len(series) - 1) |->
                        PercentChange(series[i + 1].date,
                                      series[i + 1].value, series[i].value)])
       ELSE Series(series)

\* rbi.ts computeYoY: for i from 12 on, a point unless the value a year
\* before is zero.
RECURSIVE computeYoYFrom(_, _)
computeYoYFrom(series, i) ==
  IF i > Len(series) THEN << >>
  ELSE LET current == series[i]
           yearAgo == series[i - YoYLookback]
       IN (IF yearAgo.value # 0
             THEN <<PercentChange(current.date, current.value, yearAgo.value)>>
           ELSE << >>) \o computeYoYFrom(series, i + 1)

computeYoY(series) == computeYoYFrom(series, YoYLookback + 1)

\* rbi.ts fetchHistoricalSeries, from the response on: [] when the request
\* failed or brought no data; otherwise the parsed series, through computeYoY
\* when the indicator's configuration asks for YoY and there are more than 12
\* points.
fetchHistoricalSeries(transform, upstream, series) ==
  IF upstream # "ok" THEN Series(<< >>)
  ELSE IF transform = "YoY" /\ Len(series) > YoYLookback
    THEN Series(computeYoY(series))
  ELSE Series(series)

\* What parseSeriesResponse can hand over: len points in date order, the one
\* at zeroAt (if any) with the value zero.
ParsedSeries(len, zeroAt) ==
  [k \in 1..len |-> Point(k, IF k = zeroAt THEN 0 ELSE 1000 + 35 * k)]

\* ---- the calls
\* The provider layer as Init leaves it, with nothing under way.
RouterIdle ==
  /\ sourceStatus = [s \in Sources |-> [available |-> "null", lastCheck |-> 0]]
  /\ pendingChecks = [s \in Sources |-> NoProbe]
  /\ initialCheckPromise = 0
  /\ lastUsedSource = [id \in RequestIds |-> ""]
  /\ now = StartTime
  /\ hasAbortTimeout = TRUE
  /\ probes = {}
  /\ initPromises = << >>
  /\ requests = << >>
  /\ started = 0
  /\ refreshed = FALSE

\* The inputs: the environments of getDataProvider; the percentages handed to
\* getStatus; for the mock provider's getSeries an id (one of them outside the
\* catalog), a draw and options that keep the whole series, its last 13, 12
\* and 1 points, or none of it; for fetchHistoricalSeries the configured
\* transform (bank-credit is configured with "YoY", the other indicators of
\* RBI_INDICATOR_MAP with none), the request's outcome and the parsed series.
CalcInit ==
  /\ \/ \E env \in Environments :
          input = [fn |-> "getDataProvider", env |-> env]
     \/ \E c \in (0 - MaxChangePct)..MaxChangePct :
          input = [fn |-> "getStatus", changePct |-> c]
     \/ \E id \in DOMAIN MockParams \cup {"nifty-50"}, draw \in Draws,
           f \in {0, NowMonth - 12, NowMonth - 11, NowMonth, NowMonth + 1},
           t \in {"", "YoY", "MoM"} :
          input = [fn |-> "getSeries", indicatorId |-> id, draw |-> draw,
                   opts |-> [from |-> f, to |-> 0, transform |-> t]]
     \/ \E t \in {"", "YoY"}, u \in {"ok", "fail"},
           len \in 0..MaxSeriesLen :
          \E z \in 0..len :
            input = [fn |-> "fetchHistoricalSeries", transform |-> t,
                     upstream |-> u, len |-> len, zeroAt |-> z]
  /\ output = NoOutput
  /\ RouterIdle
  /\ ServerIdle
  /\ LimiterIdle
  /\ AdaptersIdle

\* The call returns (or throws): the helpers run to completion.
Apply(value) ==
  /\ output = NoOutput
  /\ output' = value
  /\ UNCHANGED <<input, vars, serverVars, limiter, adapters>>

CallGetDataProvider ==
  /\ input.fn = "getDataProvider"
  /\ Apply(getDataProvider(input.env))

CallGetStatus ==
  /\ input.fn = "getStatus"
  /\ Apply(getStatus(input.changePct))

CallGetSeries ==
  /\ input.fn = "getSeries"
  /\ Apply(getSeries(input.indicatorId, input.draw, input.opts))

CallFetchHistoricalSeries ==
  /\ input.fn = "fetchHistoricalSeries"
  /\ Apply(fetchHistoricalSeries(input.transform, input.upstream,
                                 ParsedSeries(input.len, input.zeroAt)))

CalcNext ==
  \/ CallGetDataProvider
  \/ CallGetStatus
  \/ CallGetSeries
  \/ CallFetchHistoricalSeries

SpecCalc == CalcInit /\ [][CalcNext]_<<calcVars, vars, serverVars, limiter, adapters>>

\* ------------------------------------------------------- the rate limiter
\* TokenBucketRateLimiter followed on its own: a limiter built with 10 tokens
\* and 10 / 60 tokens per second, either as nseRateLimiter is (maxBuckets
\* 1000, one key asked for) or with room for two buckets (three keys).
MaxChecks == 12
MaxEvictionChecks == 5
MaxLimiterTicks == 2

LimiterInit ==
  /\ limiter \in {[maxBuckets |-> m, calls |-> << >>] : m \in {2, NseMaxBuckets}}
  /\ buckets = << >>
  /\ clock = TokenUnit
  /\ route = ""
  /\ sessionToken = 0
  /\ sessionExpiresAt = 0
  /\ refreshPromise = 0
  /\ acquisitions = {}
  /\ handlers = << >>
  /\ RouterIdle
  /\ CalcIdle
  /\ AdaptersIdle

\* limiter.checkLimit(key), the call and its answer being noted.
CheckLimit(key) ==
  /\ Len(limiter.calls) < (IF limiter.maxBuckets = NseMaxBuckets
                             THEN MaxChecks ELSE MaxEvictionChecks)
  /\ LET c == TokenBucketCheck(limiter.maxBuckets, buckets, key, clock)
     IN /\ buckets' = c.buckets
        /\ limiter' = [limiter EXCEPT
                         !.calls = Append(@, [key |-> key, at |-> clock,
                                              allowed |-> c.allowed,
                                              retryAfter |-> c.retryAfter])]
  /\ UNCHANGED <<route, sessionToken, sessionExpiresAt, refreshPromise,
                 acquisitions, handlers, clock, vars, calcVars, adapters>>

\* Time passes: the refill time of one token, or a third of it.
LimiterTick(step) ==
  /\ clock + step <= TokenUnit + MaxLimiterTicks * TokenUnit
  /\ clock' = clock + step
  /\ UNCHANGED <<route, sessionToken, sessionExpiresAt, refreshPromise,
                 acquisitions, buckets, handlers, limiter, vars, calcVars,
                 adapters>>

LimiterNext ==
  \/ \E key \in (IF limiter.maxBuckets = NseMaxBuckets
                  THEN {"nse_NIFTY 50_NSE"}
                  ELSE {"nse_NIFTY 50_NSE", "nse_NIFTY BANK_NSE",
                        "nse_INDIA VIX_NSE"}) : CheckLimit(key)
  \/ \E step \in {TokenUnit, TokenUnit \div 3} : LimiterTick(step)

SpecLimiter ==
  LimiterInit /\ [][LimiterNext]_<<serverVars, limiter, vars, calcVars, adapters>>

\* ------------------------------------------------- the adapters' getLatest
\* rbi.ts, nse.ts, mospi.ts and mock.ts followed on their own, one adapter to
\* a behaviour, getLatest being called for one indicator of it: "repo-rate"
\* (RBI_INDICATOR_MAP gives it a tier1Name and a dsdCode), "nifty-50"
\* (MARKET_SYMBOL_MAP: NIFTY 50 on NSE), "cpi-headline-yoy" (INDICATOR_MOSPI_MAP:
\* dataset CPI), and for the mock provider an id of MockParams or one the
\* catalog does not hold.  Dates are day numbers, Today the one of
\* new Date().  The time-to-live of each cache is in milliseconds: 5, 15 and
\* 30 minutes.
CACHE_DURATION == 300000
CURRENT_RATES_CACHE_MS == 900000
SERIES_CACHE_MS == 1800000
Today == 3

\* How many times five minutes pass.
MaxAdapterTicks == 7

\* null
Null == [null |-> TRUE]

\* rbi.ts fetchCurrentRates at time t, the request (if made) being answered
\* with response: the cache afterwards, whether the request was made, and
\* the rates or the throw.
fetchCurrentRates(cache, t, response) ==
  IF cache # Null /\ t - cache.timestamp < CURRENT_RATES_CACHE_MS
    THEN [cache |-> cache, upstream |-> FALSE, kind |-> "return",
          data |-> cache.data]
  ELSE IF ~response.success \/ Len(response.rates) = 0
    THEN [cache |-> cache, upstream |-> TRUE, kind |-> "throw", data |-> << >>]
  ELSE [cache |-> [data |-> response.rates, timestamp |-> t],
        upstream |-> TRUE, kind |-> "return", data |-> response.rates]

\* rbi.ts fetchHistoricalSeries with its cache, for an indicator with a
\* dsdCode; response.series is what parseSeriesResponse makes of the answer.
fetchCachedSeries(cache, cacheKey, transform, t, response) ==
  IF cacheKey \in DOMAIN cache /\ t - cache[cacheKey].timestamp < SERIES_CACHE_MS
    THEN [cache |-> cache, upstream |-> FALSE, data |-> cache[cacheKey].data]
  ELSE IF ~response.success
    THEN [cache |-> cache, upstream |-> TRUE, data |-> << >>]
  ELSE LET series == fetchHistoricalSeries(transform, "ok", response.series).series
       IN [cache |-> (cacheKey :> [data |-> series, timestamp |-> t]) @@ cache,
           upstream |-> TRUE, data |-> series]

\* nse.ts fetchMarketData: the quote, or null.
fetchMarketData(cache, cacheKey, t, response) ==
  IF cacheKey \in DOMAIN cache /\ t - cache[cacheKey].timestamp < CACHE_DURATION
    THEN [cache |-> cache, upstream |-> FALSE, data |-> cache[cacheKey].data]
  ELSE IF response.success
    THEN [cache |-> (cacheKey :> [data |-> response.data, timestamp |-> t])
                      @@ cache,
          upstream |-> TRUE, data |-> response.data]
  ELSE [cache |-> cache, upstream |-> TRUE, data |-> Null]

\* mospi.ts fetchMetadata; the metadata is what the upstream said at asOf.
fetchMetadata(cache, cacheKey, t, success) ==
  IF cacheKey \in DOMAIN cache
    THEN [cache |-> cache, upstream |-> FALSE, data |-> cache[cacheKey]]
  ELSE IF success
    THEN [cache |-> (cacheKey :> [asOf |-> t]) @@ cache, upstream |-> TRUE,
          data |-> [asOf |-> t]]
  ELSE [cache |-> cache, upstream |-> TRUE, data |-> Null]

\* a || b || ... || otherwise over the fields of a record: the first that is
\* there and not zero, as [defined, value].
RECURSIVE FirstTruthy(_, _, _)
FirstTruthy(data, fields, otherwise) ==
  IF fields = << >> THEN otherwise
  ELSE IF Head(fields) \in DOMAIN data /\ data[Head(fields)] # 0
    THEN [defined |-> TRUE, value |-> data[Head(fields)]]
  ELSE FirstTruthy(data, Tail(fields), otherwise)

\* An Observation; prior is a field only where it is not undefined.
Observation(indicatorId, date, value, num, prior) ==
  LET o == [kind |-> "return", indicatorId |-> indicatorId, date |-> date,
            value |-> value, num |-> num]
  IN IF prior.defined THEN ("prior" :> prior.value) @@ o ELSE o

\* The last two points of a series in date order, as getLatest reads them.
LatestOf(indicatorId, series) ==
  Observation(indicatorId, series[Len(series)].date,
              series[Len(series)].value, series[Len(series)].num,
              IF Len(series) > 1
                THEN [defined |-> TRUE, value |-> series[Len(series) - 1].value]
              ELSE [defined |-> FALSE, value |-> 0])

\* The getLatest calls give the adapter's state afterwards (st with its
\* caches), the requests made, the payload the observation was read from and
\* the result.

\* rbiProvider.getLatest("repo-rate"): Tier 1 from the current rates, Tier 2
\* from the series of the last 60 days when Tier 1 threw or had no match.
RbiGetLatest(st, ratesResponse, seriesResponse) ==
  LET rates == fetchCurrentRates(st.currentRatesCache, st.now, ratesResponse)
      IsMatch(r) == r.name = "Policy Repo Rate"
      matches == SelectSeq(rates.data, IsMatch)
      match == matches[1]
      series == fetchCachedSeries(st.seriesCache, "repo-rate_60d", "", st.now,
                                  seriesResponse)
  IN IF matches # << >>
       THEN [st |-> [st EXCEPT !.currentRatesCache = rates.cache],
             asked |-> IF rates.upstream THEN {"current"} ELSE {},
             payload |-> match,
             result |->
               Observation(st.indicatorId,
                           IF "timeDate" \in DOMAIN match THEN match.timeDate
                           ELSE IF "timeMonth" \in DOMAIN match
                             THEN match.timeMonth
                           ELSE Today,
                           IF "rate" \in DOMAIN match THEN match.rate ELSE 0,
                           IF "rate" \in DOMAIN match THEN "finite" ELSE "NaN",
                           [defined |-> FALSE, value |-> 0])]
     ELSE [st |-> [st EXCEPT !.currentRatesCache = rates.cache,
                             !.seriesCache = series.cache],
           asked |-> (IF rates.upstream THEN {"current"} ELSE {})
                       \cup (IF series.upstream THEN {"historical"} ELSE {}),
           payload |-> [series |-> series.data],
           result |-> IF Len(series.data) = 0 THEN [kind |-> "throw"]
                      ELSE LatestOf(st.indicatorId, series.data)]

\* nseProvider.getLatest("nifty-50")
NseGetLatest(st, response) ==
  LET quote == fetchMarketData(st.marketDataCache, "NSE_NIFTY 50", st.now,
                               response)
      data == quote.data
      current == FirstTruthy(data, <<"lastPrice", "close", "value">>,
                             [defined |-> TRUE, value |-> 0])
      prior == FirstTruthy(data, <<"previousClose">>,
                           IF "open" \in DOMAIN data
                             THEN [defined |-> TRUE, value |-> data.open]
                           ELSE [defined |-> FALSE, value |-> 0])
      date == FirstTruthy(data, <<"timestamp">>,
                          [defined |-> TRUE, value |-> Today])
  IN [st |-> [st EXCEPT !.marketDataCache = quote.cache],
      asked |-> IF quote.upstream THEN {"market"} ELSE {},
      payload |-> data,
      result |-> IF data = Null THEN [kind |-> "throw"]
                 ELSE Observation(st.indicatorId, date.value, current.value,
                                  "finite", prior)]

\* mospiProvider.getLatest("cpi-headline-yoy"): the metadata first, then the
\* data, sorted newest first.
MospiGetLatest(st, metadataSuccess, dataResponse) ==
  LET metadata == fetchMetadata(st.metadataCache, "metadata_CPI", st.now,
                                metadataSuccess)
      Later(a, b) == a.date > b.date
      sorted == SortSeq(dataResponse.observations, Later)
  IN [st |-> [st EXCEPT !.metadataCache = metadata.cache],
      asked |-> (IF metadata.upstream THEN {"metadata"} ELSE {}) \cup {"data"},
      payload |-> [series |-> dataResponse.observations],
      result |-> IF ~dataResponse.success \/ dataResponse.observations = << >>
                   THEN [kind |-> "throw"]
                 ELSE Observation(st.indicatorId, sorted[1].date,
                                  sorted[1].value, sorted[1].num,
                                  IF Len(sorted) > 1
                                    THEN [defined |-> TRUE,
                                          value |-> sorted[2].value]
                                  ELSE [defined |-> FALSE, value |-> 0])]

\* MockDataProvider.getLatest, indicator.series being st.source.
MockGetLatest(st) ==
  [st |-> st, asked |-> {}, payload |-> [series |-> st.source],
   result |-> IF st.indicatorId \notin CatalogIds THEN [kind |-> "throw"]
              ELSE LatestOf(st.indicatorId, st.source)]

\* The adapter followed, its indicator, and in source what the upstream
\* holds for it, oldest first: the repo rate's observations (hundredths of a
\* percent), the NIFTY 50's previous close and last price, the CPI's
\* observations, the series the mock catalog generated.
AdaptersInit ==
  /\ \E p \in {[provider |-> "rbi", indicatorId |-> "repo-rate",
                source |-> <<Point(1, 650), Point(2, 625)>>],
               [provider |-> "nse", indicatorId |-> "nifty-50",
                source |-> <<Point(1, 24400), Point(2, 24500)>>],
               [provider |-> "mospi", indicatorId |-> "cpi-headline-yoy",
                source |-> <<Point(1, 490), Point(2, 510)>>],
               [provider |-> "mock", indicatorId |-> "nifty-50",
                source |-> << >>]}
            \cup {[provider |-> "mock", indicatorId |-> id,
                   source |-> MockSeries(id, draw)] :
                    id \in DOMAIN MockParams, draw \in Draws} :
       adapters = [provider |-> p.provider, indicatorId |-> p.indicatorId,
                   source |-> p.source, now |-> SERIES_CACHE_MS,
                   currentRatesCache |-> Null, seriesCache |-> << >>,
                   marketDataCache |-> << >>, metadataCache |-> << >>,
                   last |-> NoOutput]
  /\ RouterIdle
  /\ ServerIdle
  /\ CalcIdle
  /\ LimiterIdle

\* Five minutes pass.
AdapterTick ==
  /\ adapters.provider # "mock"
  /\ adapters.now + CACHE_DURATION
       <= SERIES_CACHE_MS + MaxAdapterTicks * CACHE_DURATION
  /\ adapters' = [adapters EXCEPT !.now = @ + CACHE_DURATION]
  /\ UNCHANGED <<vars, serverVars, calcVars, limiter>>

\* A getLatest call of the adapter followed, or time passing.  The answers
\* of the upstreams:
\*   /api/rbi/data?type=current: no success; a result without rates; the repo
\*     rate among the rates; the repo rate's record without its rate; rates
\*     without the repo rate;
\*   the POST to /api/rbi/data, as parseSeriesResponse leaves it: no success;
\*     no points; the observations;
\*   /api/nse/data, whose data carries lastPrice, previousClose and open as
\*     the exchange's record had them: no success; all three; no
\*     previousClose; no lastPrice;
\*   /api/mospi/metadata: success or not; /api/mospi/data: no success; no
\*     observations; the observations, newest first.
AdaptersNext ==
  LET latest == adapters.source[Len(adapters.source)]
      before == adapters.source[Len(adapters.source) - 1]
      Called(c) ==
        /\ adapters' = [c.st EXCEPT
                          !.last = [kind |-> "called", asked |-> c.asked,
                                    payload |-> c.payload,
                                    result |-> c.result]]
        /\ UNCHANGED <<vars, serverVars, calcVars, limiter>>
  IN \/ /\ adapters.provider = "rbi"
        /\ \E r \in { [success |-> FALSE],
                      [success |-> TRUE, rates |-> << >>],
                      [success |-> TRUE,
                       rates |-> <<[name |-> "Bank Rate",
                                    rate |-> latest.value + 25,
                                    timeDate |-> latest.date],
                                   [name |-> "Policy Repo Rate",
                                    rate |-> latest.value,
                                    timeDate |-> latest.date]>>],
                      [success |-> TRUE,
                       rates |-> <<[name |-> "Policy Repo Rate",
                                    timeDate |-> latest.date]>>],
                      [success |-> TRUE,
                       rates |-> <<[name |-> "Bank Rate",
                                    rate |-> latest.value + 25,
                                    timeDate |-> latest.date]>>] },
              s \in { [success |-> FALSE, series |-> << >>],
                      [success |-> TRUE, series |-> << >>],
                      [success |-> TRUE, series |-> adapters.source] } :
             Called(RbiGetLatest(adapters, r, s))
     \/ /\ adapters.provider = "nse"
        /\ \E r \in { [success |-> FALSE],
                      [success |-> TRUE,
                       data |-> [lastPrice |-> latest.value,
                                 previousClose |-> before.value,
                                 open |-> before.value + 50,
                                 timestamp |-> latest.date]],
                      [success |-> TRUE,
                       data |-> [lastPrice |-> latest.value,
                                 open |-> before.value + 50,
                                 timestamp |-> latest.date]],
                      [success |-> TRUE,
                       data |-> [previousClose |-> before.value,
                                 open |-> before.value + 50,
                                 timestamp |-> latest.date]] } :
             Called(NseGetLatest(adapters, r))
     \/ /\ adapters.provider = "mospi"
        /\ \E m \in BOOLEAN,
              d \in { [success |-> FALSE, observations |-> << >>],
                      [success |-> TRUE, observations |-> << >>],
                      [success |-> TRUE,
                       observations |-> <<latest, before>>] } :
             Called(MospiGetLatest(adapters, m, d))
     \/ /\ adapters.provider = "mock"
        /\ Called(MockGetLatest(adapters))
     \/ AdapterTick

SpecAdapters ==
  AdaptersInit /\ [][AdaptersNext]_<<adapters, vars, serverVars, calcVars, limiter>>

\* ------------------------------------------------------------------ claims

\* C1 (fallback completeness): a getLatest or getSeries request for an id of
\* the static catalog never ends with a thrown error, whatever the sources'
\* availability and whatever the live adapters did.
C1_FallbackCompleteness ==
  \A i \in 1..Len(requests) :
    (/\ requests[i].pc = "done"
     /\ requests[i].id \in CatalogIds
     /\ requests[i].op \in {"getLatest", "getSeries"})
      => requests[i].result.kind = "ok"

\* A getLatest for a catalog id whose live adapter threw has returned a result.
C1_Witness ==
  \E i \in 1..Len(requests) :
    /\ requests[i].pc = "done"
    /\ requests[i].op = "getLatest"
    /\ requests[i].id \in CatalogIds
    /\ requests[i].provider \in {"MoSPI", "RBI", "NSE"}
    /\ requests[i].out = Throw
    /\ requests[i].result = [kind |-> "ok", by |-> "Mock", len |-> NoLen]

C3_EmptySeriesFallback ==
  [][\A i \in 1..Len(requests) :
       AdapterReturn(i, 0) =>
         /\ requests'[i].result.kind = "ok"
         /\ requests'[i].result.by = "Mock"
         /\ requests'[i].result.len > 0]_vars

\* C3 amended: when the selected live adapter's getSeries returns a
\* zero-length series, the router's getSeries ends as the mock provider's
\* getSeries for the same id and options ends; that is a series which is not
\* empty when the id is in the catalog and the options hold no date range.
C3_EmptySeriesFallbackAmended ==
  [][\A i \in 1..Len(requests) :
       AdapterReturn(i, 0) =>
         LET r == requests[i] IN
           /\ requests'[i].calls = <<Call(r.provider, r), Call("Mock", r)>>
           /\ requests'[i].result = MockCall("getSeries", r.id, r.opts)
           /\ (r.id \in CatalogIds /\ r.opts.from = 0 /\ r.opts.to = 0)
                => /\ requests'[i].result.kind = "ok"
                   /\ requests'[i].result.len > 0]_vars

\* A live adapter returned an empty series and the router returned the mock
\* provider's non-empty one.
C3_Witness ==
  \E i \in 1..Len(requests) :
    /\ requests[i].pc = "done"
    /\ requests[i].op = "getSeries"
    /\ requests[i].provider \in {"MoSPI", "RBI", "NSE"}
    /\ requests[i].out = 0
    /\ requests[i].result.by = "Mock"
    /\ requests[i].result.len > 0

\* C4 (failure fallback): when the selected live adapter throws, the router
\* makes the same call of the mock provider once, with the same arguments,
\* and ends as that call ends, no other live source being tried; when the
\* mock provider is the selected provider, its call is the only call and its
\* failure is the request's failure.
C4_FailureFallback ==
  \A i \in 1..Len(requests) :
    LET r == requests[i] IN
    (r.pc = "done" /\ r.provider # "") =>
      /\ (r.provider # "Mock" /\ r.out = Throw) =>
           /\ r.calls = <<Call(r.provider, r), Call("Mock", r)>>
           /\ r.result = MockCall(r.op, r.id, r.opts)
      /\ r.provider = "Mock" =>
           /\ r.calls = <<Call("Mock", r)>>
           /\ r.result = MockCall(r.op, r.id, r.opts)
           /\ r.out = Throw => r.result.kind = "error"

\* A live getSeries with a date range threw and the mock provider answered.
C4_Witness ==
  \E i \in 1..Len(requests) :
    /\ requests[i].pc = "done"
    /\ requests[i].op = "getSeries"
    /\ requests[i].opts # NoOpts
    /\ requests[i].provider \in {"MoSPI", "RBI", "NSE"}
    /\ requests[i].out = Throw
    /\ Len(requests[i].calls) = 2

\* C5 (probe deduplication): no source has more than one health probe in
\* flight; the probe in flight is the one pendingChecks holds, and every
\* caller waiting for an answer about the source waits for that probe.
C5_ProbeDeduplication ==
  /\ \A s \in Sources :
       /\ Cardinality(InFlight(s)) <= 1
       /\ \A pr \in InFlight(s) : pendingChecks[s] = pr.n
  /\ \A i \in 1..Len(requests) :
       (requests[i].pc = "check" /\ requests[i].wait # NoProbe)
         => /\ requests[i].wait = pendingChecks[requests[i].src]
            /\ InFlight(requests[i].src) # {}
  /\ \A g \in 1..Len(initPromises) :
       \A w \in initPromises[g].waits :
         /\ w[2] = pendingChecks[w[1]]
         /\ InFlight(w[1]) # {}

\* Two callers checked the same source before its probe completed and wait
\* for the one probe.
C5_Witness ==
  \E i, j \in 1..Len(requests) :
    /\ i # j
    /\ requests[i].pc = "check"
    /\ requests[j].pc = "check"
    /\ requests[i].src = requests[j].src
    /\ requests[i].wait # NoProbe
    /\ requests[i].wait = requests[j].wait
    /\ Cardinality(InFlight(requests[i].src)) = 1

\* C6 (startup warm-up): until refreshAllSources is called there is one
\* initial check; while a source's record is not yet checked, exactly one
\* probe of it is in flight and the initial check waits for it; every request
\* waits for that one initial check, and none is past it while any record is
\* still not yet checked.
C6_StartupWarmUp ==
  ~refreshed =>
    /\ Len(initPromises) <= 1
    /\ started > 0 => initialCheckPromise = 1
    /\ \A i \in 1..Len(requests) :
         /\ requests[i].initGen = 1
         /\ requests[i].pc # "init"
              => \A s \in Sources : sourceStatus[s].available # "null"
    /\ started > 0 =>
         \A s \in Sources :
           sourceStatus[s].available = "null" =>
             /\ InFlight(s) = {[source |-> s, n |-> 1, done |-> FALSE]}
             /\ <<s, 1>> \in initPromises[1].waits

\* Two requests wait for the one initial check while the three probes it
\* started are in flight.
C6_Witness ==
  /\ ~refreshed
  /\ Len(requests) = 2
  /\ \A i \in 1..Len(requests) : requests[i].pc = "init" /\ requests[i].initGen = 1
  /\ initPromises[1].waits = {<<s, 1>> : s \in Sources}
  /\ \A s \in Sources : sourceStatus[s].available = "null"

\* C7 (TTL respect): once a probe of a source has completed, a check of the
\* source made less than CHECK_INTERVAL after the recorded check time returns
\* the cached flag and starts no probe, and the first check made at or after
\* CHECK_INTERVAL starts a probe.  The checks are those of a request about to
\* resume in selectProvider.
C7_TTLRespect ==
  \A s \in Sources :
    (/\ sourceStatus[s].available # "null"
     /\ InFlight(s) = {}
     /\ \E i \in 1..Len(requests) :
          requests[i].pc = "init" /\ InitResolved(requests[i].initGen))
      => LET c == CheckSourceAvailability(Prober, s) IN
           IF now - sourceStatus[s].lastCheck < CHECK_INTERVAL
             THEN /\ ~c.started
                  /\ c.wait = NoProbe
                  /\ c.val = IF sourceStatus[s].available = "true"
                               THEN "yes" ELSE "no"
             ELSE c.started

\* C8 (refresh round trip): right after refreshAllSources, in any state, a
\* check of any source starts a new probe, so that its answer is neither
\* cached nor that of a probe started before the refresh.
C8_RefreshRoundTrip ==
  [][RefreshAllSources =>
       \A s \in Sources :
         CheckSourceAvailability([sourceStatus |-> sourceStatus',
                                  pendingChecks |-> pendingChecks',
                                  probes |-> probes'], s).started]_vars

\* C9 (probe failure semantics): a probe that ends without success (a
\* non-success payload, a thrown error, a timeout) records the source as
\* unavailable at the current time and hands false to everyone waiting for
\* it; no check, initial check or router request is ever rejected by a probe.
C9_ProbeFailureSemantics ==
  [][/\ \A pr \in probes :
          \A outcome \in {"nonSuccess", "throw"} :
            ProbeComplete(pr, outcome) =>
              /\ sourceStatus'[pr.source] =
                   [available |-> "false", lastCheck |-> now]
              /\ \A i \in 1..Len(requests) :
                   (/\ requests[i].pc = "check"
                    /\ requests[i].src = pr.source
                    /\ requests[i].wait = pr.n)
                     => /\ requests'[i].wait = NoProbe
                        /\ requests'[i].val = "no"
     /\ \A i \in 1..Len(requests') :
          /\ requests'[i].val # "rejected"
          /\ requests'[i].result.by # "prober"
     /\ \A g \in 1..Len(initPromises') : ~initPromises'[g].rejected]_vars

\* A request was told that MoSPI is unavailable after MoSPI's probe failed, and
\* it returned a result.
C9_Witness ==
  /\ hasAbortTimeout
  /\ sourceStatus["mospi"] = [available |-> "false", lastCheck |-> now]
  /\ \E i \in 1..Len(requests) :
       /\ requests[i].pc = "done"
       /\ requests[i].avail["mospi"] = "no"
       /\ requests[i].result.kind = "ok"

\* C10 (last-used source): when a request has returned an answer,
\* getDataSource of its id is the source whose provider produced that answer.
C10_LastUsedSource ==
  \A i \in 1..Len(requests) :
    (requests[i].pc = "done" /\ requests[i].result.kind = "ok")
      => getDataSource(requests[i].id) = requests[i].result.by

\* C11 (session-acquisition deduplication): at most one session acquisition
\* of the upstream is outstanding; it is the one the refresh promise holds,
\* and every handler waiting for a session waits for it.
C11_SessionDeduplication ==
  /\ Cardinality(acquisitions) <= 1
  /\ \A a \in acquisitions : refreshPromise = a.n
  /\ \A i \in 1..Len(handlers) :
       (handlers[i].pc \in {"session", "resession"} /\ handlers[i].wait # 0)
         => /\ handlers[i].wait = refreshPromise
            /\ \E a \in acquisitions : a.n = handlers[i].wait

\* Two handlers needed a session while an acquisition was in flight and wait
\* for that one acquisition.
C11_Witness ==
  /\ Len(handlers) = 2
  /\ Cardinality(acquisitions) = 1
  /\ \A i \in 1..Len(handlers) :
       /\ handlers[i].pc \in {"session", "resession"}
       /\ handlers[i].wait = refreshPromise
       /\ handlers[i].wait # 0

\* C12 (auth-rejection retry): an operation whose data request was rejected
\* because its session is no longer valid (a 401/403, or a session-expired
\* error code) has repeated the request once when it reports its outcome; no
\* operation issues more than two data requests, and a rejected retry is
\* reported as a failure.
C12_AuthRejectionRetry ==
  \A i \in 1..Len(handlers) :
    LET h == handlers[i] IN
    h.pc = "responded" =>
      /\ h.sent <= 2
      /\ (Len(h.resp) >= 1 /\ h.resp[1] \in {"auth", "expired"} /\ h.val > 0)
           => h.sent = 2
      /\ (Len(h.resp) = 2 /\ h.resp[2] \in {"auth", "expired"})
           => h.result = "error"

\* C13 (rate-limit admission): a handler issues an upstream data request
\* only after the token-bucket check admitted it, and a handler answered as
\* rate limited has issued none.
C13_RateLimitAdmission ==
  \A i \in 1..Len(handlers) :
    /\ handlers[i].sent > 0 => handlers[i].admitted
    /\ handlers[i].result = "rateLimited"
         => handlers[i].sent = 0 /\ handlers[i].resp = << >>

\* C14 (single dispatch): a request has issued no delegated call before
\* selectProvider has returned; its first call goes to the selected
\* provider, and at most one of its calls goes to a live adapter.
C14_SingleDispatch ==
  \A i \in 1..Len(requests) :
    LET r == requests[i] IN
      /\ r.pc \in {"init", "check"} => r.calls = << >>
      /\ r.calls # << >> =>
           /\ r.provider # ""
           /\ r.calls[1].provider = r.provider
      /\ Cardinality({k \in 1..Len(r.calls) : r.calls[k].provider # "Mock"}) <= 1

\* A request for repo-rate called the RBI adapter, which failed, and then the
\* mock provider, and no other adapter.
C14_Witness ==
  \E i \in 1..Len(requests) :
    /\ requests[i].pc = "done"
    /\ requests[i].id = "repo-rate"
    /\ requests[i].avail["rbi"] = "yes"
    /\ Len(requests[i].calls) = 2
    /\ requests[i].calls[1].provider = "RBI"
    /\ requests[i].calls[2].provider = "Mock"

\* C15 (unsupported ids never surface): every call a request makes of a live
\* adapter is for an id the adapter's capability predicate holds for and the
\* adapter has a configuration for, so the adapter's "not available from
\* this source" failure is not among the outcomes of any call.
C15_UnsupportedNeverSurfaces ==
  \A i \in 1..Len(requests) :
    \A k \in 1..Len(requests[i].calls) :
      LET c == requests[i].calls[k] IN
      c.provider # "Mock" =>
        /\ canFetchFrom(SourceOf(c.provider), c.id)
        /\ AdapterConfig(SourceOf(c.provider), c.id)

\* An id no live source can serve went to the mock provider while all three
\* sources were available.
C15_Witness ==
  /\ \A s \in Sources : sourceStatus[s].available = "true"
  /\ \E i \in 1..Len(requests) :
       /\ requests[i].pc = "call"
       /\ requests[i].id = "brent"
       /\ requests[i].provider = "Mock"
       /\ requests[i].avail = NoAvail

\* C16 (provider mode selection), as stated: getDataProvider returns the mock
\* provider for the value mock or an unset value, the matching provider for
\* mospi, rbi, nse and hybrid, and for every other value the mock provider
\* with a warning, without throwing.
C16_ProviderModeSelection ==
  (input.fn = "getDataProvider" /\ output # NoOutput) =>
    LET env == input.env
    IN /\ output.kind = "return"
       /\ (~env.defined \/ env.value = "mock") =>
            output.provider = "MockDataProvider"
       /\ (env.defined /\ env.value = "mospi") => output.provider = "mospiProvider"
       /\ (env.defined /\ env.value = "rbi") => output.provider = "rbiProvider"
       /\ (env.defined /\ env.value = "nse") => output.provider = "nseProvider"
       /\ (env.defined /\ env.value = "hybrid") =>
            output.provider = "hybridProvider"
       /\ (env.defined /\ env.value \notin {"mock", "mospi", "rbi", "nse", "hybrid"}) =>
            (output.provider = "MockDataProvider" /\ output.warned)

\* C16 (provider mode selection), amended: the empty string counts as unset.
\* getDataProvider returns the mock provider, without a warning, for mock, an
\* unset value or the empty string; the matching provider for mospi, rbi, nse
\* and hybrid; and for every other value the mock provider with a warning.  It
\* never throws.
C16_ProviderModeSelectionAmended ==
  (input.fn = "getDataProvider" /\ output # NoOutput) =>
    LET env == input.env
        absent == ~env.defined \/ env.value = ""
    IN /\ output.kind = "return"
       /\ (absent \/ env.value = "mock") =>
            (output.provider = "MockDataProvider" /\ ~output.warned)
       /\ (~absent /\ env.value = "mospi") =>
            (output.provider = "mospiProvider" /\ ~output.warned)
       /\ (~absent /\ env.value = "rbi") =>
            (output.provider = "rbiProvider" /\ ~output.warned)
       /\ (~absent /\ env.value = "nse") =>
            (output.provider = "nseProvider" /\ ~output.warned)
       /\ (~absent /\ env.value = "hybrid") =>
            (output.provider = "hybridProvider" /\ ~output.warned)
       /\ (~absent /\ env.value \notin {"mock", "mospi", "rbi", "nse", "hybrid"}) =>
            (output.provider = "MockDataProvider" /\ output.warned)

\* An unrecognised value was passed and the call has returned.
C16_Witness ==
  /\ input.fn = "getDataProvider"
  /\ input.env = [defined |-> TRUE, value |-> "HYBRID"]
  /\ output # NoOutput
  /\ output.warned

\* C17 (status classification): getStatus returns Heating above 0.3, Cooling
\* below -0.3, Watch when neither holds and the magnitude is above 0.15, and
\* Neutral otherwise; exactly 0.3 and exactly -0.3 give Watch and exactly 0.15
\* gives Neutral.
C17_StatusClassification ==
  (input.fn = "getStatus" /\ output # NoOutput) =>
    LET c == input.changePct
    IN /\ output.kind = "return"
       /\ c > 300 => output.status = "Heating"
       /\ c < 0 - 300 => output.status = "Cooling"
       /\ (c <= 300 /\ c >= 0 - 300 /\ (c > 150 \/ c < 0 - 150)) =>
            output.status = "Watch"
       /\ (c <= 150 /\ c >= 0 - 150) => output.status = "Neutral"
       /\ c \in {300, 0 - 300} => output.status = "Watch"
       /\ c = 150 => output.status = "Neutral"

\* getStatus has returned for a change of exactly 0.3.
C17_Witness ==
  /\ input.fn = "getStatus"
  /\ input.changePct = HeatingThreshold
  /\ output # NoOutput
  /\ output.status = "Watch"

\* C18 (percent-change transforms): a YoY or MoM series the system produces
\* holds, for each index i at or beyond the lookback, the point of date[i]
\* with the value (value[i] - value[i-lookback]) / |value[i-lookback]| * 100
\* (to two decimals), except that no point is emitted when value[i-lookback]
\* is zero; no emitted value comes from a division by zero.  Stated for the
\* mock provider's getSeries (lookback 12 for YoY, 1 for MoM) and for the RBI
\* adapter's YoY series.
C18_PercentChangeTransforms ==
  LET IsChange(v, current, prior) ==
        LET a == IF prior < 0 THEN 0 - prior ELSE prior
            d == v * a - (current - prior) * 10000
        IN 2 * d <= a /\ 2 * d >= 0 - a
      Transformed(src, lb, out) ==
        /\ \A j \in 1..Len(out) : out[j].num = "finite"
        /\ \A i \in (lb + 1)..Len(src) :
             IF src[i - lb].value = 0
               THEN \A j \in 1..Len(out) : out[j].date # src[i].date
             ELSE \E j \in 1..Len(out) :
                    /\ out[j].date = src[i].date
                    /\ IsChange(out[j].value, src[i].value, src[i - lb].value)
  IN /\ (/\ input.fn = "getSeries"
         /\ output # NoOutput
         /\ output.kind = "return"
         /\ input.opts.transform \in {"YoY", "MoM"}) =>
          Transformed(FilterByDate(MockSeries(input.indicatorId, input.draw),
                                   input.opts),
                      IF input.opts.transform = "YoY" THEN 12 ELSE 1,
                      output.series)
     /\ (/\ input.fn = "fetchHistoricalSeries"
         /\ output # NoOutput
         /\ input.upstream = "ok"
         /\ input.transform = "YoY") =>
          Transformed(ParsedSeries(input.len, input.zeroAt), 12, output.series)

\* C19 (insufficient history): getSeries with transform YoY or MoM on a
\* (date-range-filtered) series with too few points for the lookback returns
\* an empty series; it neither fails nor returns the untransformed levels.
C19_InsufficientHistory ==
  /\ (/\ input.fn = "getSeries"
      /\ output # NoOutput
      /\ input.indicatorId \in DOMAIN MockParams
      /\ input.opts.transform \in {"YoY", "MoM"}) =>
       LET src == FilterByDate(MockSeries(input.indicatorId, input.draw),
                               input.opts)
           lb == IF input.opts.transform = "MoM" THEN 1
                 ELSE IF MockParams[input.indicatorId].frequency = "Quarterly"
                   THEN 4
                 ELSE 12
       IN Len(src) <= lb =>
            (output.kind = "return" /\ output.series = << >>)
  /\ (/\ input.fn = "fetchHistoricalSeries"
      /\ output # NoOutput
      /\ input.upstream = "ok"
      /\ input.transform = "YoY"
      /\ input.len <= 12) =>
       (output.kind = "return" /\ output.series = << >>)

\* C20 (lookback by cadence): the mock provider's YoY series compares each
\* point with the one 12 periods earlier for a monthly indicator and 4 periods
\* earlier for a quarterly one, its MoM series with the one 1 period earlier;
\* no point before the lookback index is emitted.  Stated for series with more
\* points than that lookback.
C20_LookbackByCadence ==
  LET IsChange(v, current, prior) ==
        LET a == IF prior < 0 THEN 0 - prior ELSE prior
            d == v * a - (current - prior) * 10000
        IN 2 * d <= a /\ 2 * d >= 0 - a
  IN (/\ input.fn = "getSeries"
      /\ output # NoOutput
      /\ input.indicatorId \in DOMAIN MockParams
      /\ input.opts.transform \in {"YoY", "MoM"}) =>
       LET src == FilterByDate(MockSeries(input.indicatorId, input.draw),
                               input.opts)
           out == output.series
           lb == IF input.opts.transform = "MoM" THEN 1
                 ELSE IF MockParams[input.indicatorId].frequency = "Quarterly"
                   THEN 4
                 ELSE 12
       IN Len(src) > lb =>
            /\ output.kind = "return"
            /\ \A j \in 1..Len(out) :
                 \E i \in (lb + 1)..Len(src) :
                   /\ out[j].date = src[i].date
                   /\ src[i - lb].value # 0 =>
                        (/\ out[j].num = "finite"
                         /\ IsChange(out[j].value, src[i].value,
                                     src[i - lb].value))

\* C24 (availability record ownership): a source's availability record
\* changes only in a step in which a health probe of that source completes
\* (after its fetch, or before its first suspension point) or in which
\* refreshAllSources resets it; a step in which a delegated call settles
\* leaves every record unchanged.
C24_AvailabilityRecordOwnership ==
  [][/\ \A s \in Sources :
          sourceStatus'[s] # sourceStatus[s] =>
            \/ \E pr \in probes : pr.source = s /\ ~pr.done /\ pr \notin probes'
            \/ \E pr \in probes' : pr.source = s /\ pr.done /\ pr \notin probes
            \/ sourceStatus' = RefreshedStatus
     /\ (/\ Len(requests') = Len(requests)
         /\ \E i \in 1..Len(requests) :
              requests[i].pc = "call" /\ requests'[i].pc # "call") =>
          sourceStatus' = sourceStatus]_vars

\* A live adapter's call threw, the mock provider answered, and the source is
\* still recorded as available.
C24_Witness ==
  \E i \in 1..Len(requests) :
    /\ requests[i].pc = "done"
    /\ requests[i].provider \in {"MoSPI", "RBI", "NSE"}
    /\ requests[i].out = Throw
    /\ sourceStatus[SourceOf(requests[i].provider)].available = "true"

\* C29 (no leaked in-flight memo): pendingChecks holds an entry for a source
\* only while a health probe of that source is in flight.
C29_NoLeakedMemo ==
  \A s \in Sources :
    pendingChecks[s] # NoProbe =>
      \E pr \in InFlight(s) : pr.n = pendingChecks[s]

\* C30 (a stale rejection does not discard a fresh session): when a data
\* request of the RBI route is rejected with 401/403 and the cached token is
\* a valid one other than the token that request carried, handling the
\* rejection leaves the cached token in place and starts no acquisition; an
\* auth rejection changes the cached token only if it is the rejected one.
C30_StaleRejection ==
  [][\A i \in 1..Len(handlers) :
       (/\ route = "rbi"
        /\ Len(handlers') = Len(handlers)
        /\ handlers[i].pc = "fetch"
        /\ handlers'[i].pc = "resession") =>
         /\ (/\ sessionToken # 0
             /\ clock < sessionExpiresAt
             /\ sessionToken # handlers[i].val) =>
              (sessionToken' = sessionToken /\ acquisitions' = acquisitions)
         /\ sessionToken' # sessionToken => sessionToken = handlers[i].val
    ]_<<serverVars, clientVars>>

\* C26 (NSE request rate): with the configured limiter (10 tokens, refill 10
\* per 60 seconds), for every key no more than 10 requests are admitted
\* within any 60-second window.
C26_RequestRate ==
  \A i \in 1..Len(limiter.calls) :
    LET first == limiter.calls[i]
        inWindow == {j \in i..Len(limiter.calls) :
                       /\ limiter.calls[j].allowed
                       /\ limiter.calls[j].key = first.key
                       /\ limiter.calls[j].at - first.at < 60 * 1000}
    IN first.allowed => Cardinality(inWindow) <= 10

\* C27 (bucket eviction): the limiter never holds more than maxBuckets
\* buckets, and the bucket removed when a new key's bucket pushes the count
\* over maxBuckets is the least recently used one: the key whose last
\* checkLimit call is the oldest.
C27_BucketEviction ==
  [][LET keys == {buckets[k].key : k \in 1..Len(buckets)}
         kept == {buckets'[k].key : k \in 1..Len(buckets')}
         last(key) == CHOOSE j \in 1..Len(limiter.calls) :
                        /\ limiter.calls[j].key = key
                        /\ \A m \in (j + 1)..Len(limiter.calls) :
                             limiter.calls[m].key # key
     IN /\ Len(buckets') <= limiter'.maxBuckets
        /\ \A e \in keys \ kept :
             \A o \in keys \ {e} : last(e) < last(o)
    ]_<<serverVars, limiter, vars, calcVars, adapters>>

\* C28 (token-bucket invariant): every bucket's token count stays between 0
\* and maxTokens; an admitted request removes exactly one token from what is
\* available after the refill (a full bucket for a new key), a denied request
\* removes none, a denial happens only when less than one token is available,
\* and every denial carries a retryAfter of at least 1 second.
C28_TokenBucketInvariant ==
  [][/\ \A k \in 1..Len(buckets') :
          buckets'[k].tokens >= 0 /\ buckets'[k].tokens <= 10 * 6000
     /\ Len(limiter'.calls) = Len(limiter.calls) + 1 =>
          LET c == limiter'.calls[Len(limiter'.calls)]
              old == {k \in 1..Len(buckets) : buckets[k].key = c.key}
              available ==
                IF old = {} THEN 10 * 6000
                ELSE LET b == buckets[CHOOSE k \in old : TRUE]
                         filled == b.tokens + (clock - b.lastRefill)
                     IN IF filled > 10 * 6000 THEN 10 * 6000 ELSE filled
          IN /\ c.allowed <=> available >= 6000
             /\ ~c.allowed => c.retryAfter >= 1
             /\ \A k \in 1..Len(buckets') :
                  buckets'[k].key = c.key =>
                    buckets'[k].tokens =
                      IF c.allowed THEN available - 6000 ELSE available
    ]_<<serverVars, limiter, vars, calcVars, adapters>>

\* A request was denied with a fraction of a token in the bucket, and one was
\* admitted after the bucket had been refilled to its capacity.
C28_Witness ==
  /\ \E j \in 1..Len(limiter.calls) :
       ~limiter.calls[j].allowed /\ limiter.calls[j].retryAfter >= 1
  /\ \E k \in 1..Len(buckets) :
       buckets[k].tokens > 0 /\ buckets[k].tokens < 6000

\* C21 (baseline series length): the mock provider's untransformed,
\* unfiltered series of a catalog indicator has 12 points when the
\* indicator's frequency is quarterly or annual and 24 points otherwise.
C21_BaselineSeriesLength ==
  (/\ input.fn = "getSeries"
   /\ output # NoOutput
   /\ input.indicatorId \in DOMAIN MockParams
   /\ input.opts = [from |-> 0, to |-> 0, transform |-> ""]) =>
    /\ output.kind = "return"
    /\ Len(output.series) =
         IF MockParams[input.indicatorId].frequency \in {"Quarterly", "Annual"}
           THEN 12 ELSE 24

\* C23 (cache staleness): a getLatest call is answered from an adapter cache
\* only while the entry's age is below that cache's time-to-live, and asks the
\* upstream once the age has reached it: CURRENT_RATES_CACHE_MS for the RBI's
\* current rates, SERIES_CACHE_MS for its series, CACHE_DURATION for the
\* market quotes; for MoSPI's metadata, which declares none, the longest of
\* the three.
C23_CacheStaleness ==
  [][ (adapters'.now = adapters.now /\ adapters'.last.kind = "called") =>
        LET asked == adapters'.last.asked
            age(entry) == adapters.now - entry.timestamp
        IN /\ adapters.currentRatesCache # Null =>
                ("current" \notin asked
                   <=> age(adapters.currentRatesCache) < CURRENT_RATES_CACHE_MS)
           /\ ( /\ "repo-rate_60d" \in DOMAIN adapters.seriesCache
                /\ "series" \in DOMAIN adapters'.last.payload ) =>
                ("historical" \notin asked
                   <=> age(adapters.seriesCache["repo-rate_60d"]) < SERIES_CACHE_MS)
           /\ "NSE_NIFTY 50" \in DOMAIN adapters.marketDataCache =>
                ("market" \notin asked
                   <=> age(adapters.marketDataCache["NSE_NIFTY 50"]) < CACHE_DURATION)
           /\ "metadata_CPI" \in DOMAIN adapters.metadataCache =>
                ("metadata" \notin asked
                   <=> adapters.now - adapters.metadataCache["metadata_CPI"].asOf
                         < SERIES_CACHE_MS)
    ]_adapters

\* C25 (malformed payloads fail): a getLatest that returns an observation
\* read its value from the payload: the value is a number, and it is the rate
\* of the matching record, one of lastPrice / close / value of the quote, or
\* the value of a point of the series; no value stands in for a missing one.
C25_MalformedPayloadsFail ==
  (adapters.last.kind = "called" /\ adapters.last.result.kind = "return") =>
    LET payload == adapters.last.payload
        result == adapters.last.result
    IN /\ result.num = "finite"
       /\ IF "series" \in DOMAIN payload
            THEN \E i \in 1..Len(payload.series) :
                   payload.series[i].value = result.value
          ELSE IF "name" \in DOMAIN payload
            THEN "rate" \in DOMAIN payload /\ payload.rate = result.value
          ELSE \E f \in {"lastPrice", "close", "value"} \cap DOMAIN payload :
                 payload[f] = result.value

\* C22 (latest with prior): where the upstream holds at least two
\* observations, a getLatest that returns (from a payload that carried the
\* value) returns the most recent observation, and as prior the value of the
\* observation before it.
C22_LatestWithPrior ==
  ( /\ adapters.last.kind = "called"
    /\ adapters.last.result.kind = "return"
    /\ Len(adapters.source) >= 2
    /\ C25_MalformedPayloadsFail ) =>
    LET result == adapters.last.result
        latest == adapters.source[Len(adapters.source)]
        before == adapters.source[Len(adapters.source) - 1]
    IN /\ result.date = latest.date
       /\ result.value = latest.value
       /\ "prior" \in DOMAIN result
       /\ result.prior = before.value
====
